---------------------------- MODULE Spec2Model ----------------------------
(***************************************************************************)
(* Banbot-3000 high-availability coordinator (src/main.py).               *)
(*                                                                         *)
(* Two processes run the same program: "A" is the Railway deployment      *)
(* (PRIMARY, no peer configured) and "B" the local one (SECONDARY, peer   *)
(* = A).  Each owns its in-memory stores, an HTTP control plane           *)
(* (GET /health, POST /sync) and a health loop.                           *)
(*                                                                         *)
(* The specifications share the variables and the operators:              *)
(*   Spec       the health loop of both processes over sampled time       *)
(*   SpecLive   Spec with the scheduling of the SECONDARY's loop          *)
(*   SpecSync   the POST /sync ingest and the custom-command registry     *)
(*   SpecPair   custom commands added on both sides and synced            *)
(*   SpecCoord  become_active / become_standby called directly            *)
(*   SpecChat   the chat commands behind process_commands                 *)
(*   SpecHttp   the GET handlers of the control plane                     *)
(*   SpecRole   the operations above side by side, at one instant         *)
(*   SpecPush   health cycles whose outbound push can be sent             *)
(*   SpecBot    warnings and restrictions; the standalone bot (bot.py)    *)
(*   SpecLog    a session long enough to fill the moderation logs         *)
(*   SpecRace   the POST /sync handler suspended beside the health loop   *)
(*   SpecTopo   Spec with an addcmd and requests to the PRIMARY's /sync   *)
(*   SpecFailover  moderation on the PRIMARY, a sync, then a takeover     *)
(*   SpecClock  Spec with the peer's host clock behind the local one      *)
(*   SpecSnap   the snapshots of a promoted SECONDARY with full stores    *)
(*   SpecEnforce  ban, kick and timeout with a failing platform call      *)
(*   SpecAuth   the moderation and admin commands of deopped authors      *)
(***************************************************************************)
EXTENDS Integers, Sequences, FiniteSets, TLC

VARIABLES
    now,                  \* wall clock, in seconds (datetime.now(timezone.utc))
    role,                 \* BanBot3000HA.role
    is_active_instance,   \* BanBot3000HA.is_active_instance
    peer_url,             \* HealthMonitor.peer_url: the peer's node, or None
    session,              \* HealthMonitor.session is set (initialize() ran)
    last_peer_heartbeat,  \* HealthMonitor.last_peer_heartbeat
    loop_running,         \* health_loop.is_running()
    pc,                   \* position of the health loop inside its cycle,
                          \* and of the POST /sync handler (SyncHandler)
    steps,                \* calls made by the current (or last) health cycle
    presence,             \* number of presence updates sent (change_presence)
    custom_commands,      \* BanBot3000HA.custom_commands: key -> CustomCommand
    commands,             \* the commands added to the bot's command table at
                          \* run time: name -> key of the registry entry
    stats,                \* BanBot3000HA.stats
    moderation_actions,   \* BanBot3000HA.moderation_actions
    warnings,             \* BanBot3000HA.warnings
    deopped_users,        \* BanBot3000HA.deopped_users
    next_warning_id,      \* BanBot3000HA.next_warning_id
    peer_up,              \* environment: process A is running and reachable
    last,                 \* the last call made and what it answered
    stale,                \* history: a cycle of this node began on a STANDBY
                          \* SECONDARY whose heartbeat was older than the grace
    normal                \* history: A was always up and no health check failed

vars == <<now, role, is_active_instance, peer_url, session, last_peer_heartbeat,
          loop_running, pc, steps, presence, custom_commands, commands, stats,
          moderation_actions, warnings, deopped_users, next_warning_id,
          peer_up, last, stale, normal>>

\* the stores a sync ingest could touch
stores == <<custom_commands, commands, stats, moderation_actions, warnings,
            deopped_users, next_warning_id>>

----------------------------------------------------------------------------
(* Bounds and program constants *)

MaxTime == 122         \* the clock stops here
MaxPresence == 3       \* presence updates counted per node in SpecCoord
MaxEntries == 2        \* custom-command entries carried by one sync payload
MaxChat == 2           \* chat commands per node that leave a trace in a
                       \* log or a counter (SpecChat)

Interval == 30         \* @tasks.loop(seconds=30)
Grace == 60            \* should_takeover: total_seconds() > 60

Nodes == {"A", "B"}
None == "none"
PRIMARY == "primary"
SECONDARY == "secondary"

\* determine_role of a deployment that takes the other role once it runs
\* elsewhere: both nodes come out SECONDARY
determine_role_local(i) ==
    [role |-> SECONDARY, peer_url |-> IF i = "A" THEN None ELSE "A"]

\* determine_role of a deployment whose PRIMARY is given the URL of the
\* SECONDARY as its peer
determine_role_with_peer(i) ==
    IF i = "A" THEN [role |-> PRIMARY, peer_url |-> "B"]
               ELSE [role |-> SECONDARY, peer_url |-> "A"]

\* determine_role: the Railway deployment is PRIMARY with no peer, the
\* local one SECONDARY with the Railway URL as its peer.
determine_role(i) ==
    IF i = "A" THEN [role |-> PRIMARY, peer_url |-> None]
               ELSE [role |-> SECONDARY, peer_url |-> "A"]

\* the POST /sync handler of node i, as a key of pc
SyncHandler(i) == IF i = "A" THEN "A/sync" ELSE "B/sync"

\* the clock advances by one loop period, or by one period and a second
Delays == {Interval, Interval + 1}

----------------------------------------------------------------------------
(* Values *)

\* a value of the stats dict, or of a JSON object: a number, a datetime
\* object or a string
IntVal(n) == [type |-> "int", v |-> n]
DateTimeVal(t) == [type |-> "datetime", v |-> t]
StrVal(n) == [type |-> "str", v |-> n]

\* datetime.isoformat(): the text on the wire; ok = FALSE is a text that
\* datetime.fromisoformat rejects
isoformat(t) == [ok |-> TRUE, t |-> t]
BadIso == [ok |-> FALSE, t |-> 0]
fromisoformat(s) == [raised |-> ~s.ok, value |-> s.t]

\* the record of a call: who made which call, what it answered or returned
\* (status, flag), whether it raised, the exception it caught inside, and
\* what it was about (arg: the member or the command named by a chat
\* command, the number of HTTP requests issued by a call of the monitor)
Event(op, node, status, flag, raised) ==
    [op |-> op, node |-> node, status |-> status, flag |-> flag,
     raised |-> raised, caught |-> "", arg |-> ""]

Range(s) == {s[k] : k \in DOMAIN s}

\* the commands registered by @bot.command at import
BuiltinCommands ==
    {"help", "h", "addcmd", "delcmd", "listcmds", "ping", "stats", "hastatus",
     "ban", "warn", "kick", "timeout", "warnings", "deop", "reop", "cleanup"}

\* BanBot3000HA.__init__: self.stats
InitStats(t) ==
    [bans |-> IntVal(0), kicks |-> IntVal(0), timeouts |-> IntVal(0),
     warnings |-> IntVal(0), deops |-> IntVal(0), commands_used |-> IntVal(0),
     custom_commands_used |-> IntVal(0), start_time |-> DateTimeVal(t)]

----------------------------------------------------------------------------
(* Initial state: both processes constructed at time 0 *)

\* a constructor that starts every instance ACTIVE
initial_is_active_instance_always(r) == TRUE

\* BanBot3000HA.__init__: self.is_active_instance = (role == BotRole.PRIMARY)
initial_is_active_instance(r) == r = PRIMARY

Init ==
    /\ now = 0
    /\ role = [i \in Nodes |-> determine_role(i).role]
    /\ is_active_instance =
           [i \in Nodes |-> initial_is_active_instance(determine_role(i).role)]
    /\ peer_url = [i \in Nodes |-> determine_role(i).peer_url]
    /\ session = [i \in Nodes |-> FALSE]
    /\ last_peer_heartbeat = [i \in Nodes |-> 0]
    /\ loop_running = [i \in Nodes |-> FALSE]
    /\ pc = [k \in Nodes \cup {SyncHandler(i) : i \in Nodes} |-> "idle"]
    /\ steps = [i \in Nodes |-> <<>>]
    /\ presence = [i \in Nodes |-> 0]
    /\ custom_commands = [i \in Nodes |-> <<>>]
    /\ commands = [i \in Nodes |-> <<>>]
    /\ stats = [i \in Nodes |-> InitStats(0)]
    /\ moderation_actions = [i \in Nodes |-> <<>>]
    /\ warnings = [i \in Nodes |-> <<>>]
    /\ deopped_users = [i \in Nodes |-> <<>>]
    /\ next_warning_id = [i \in Nodes |-> 1]
    /\ peer_up = TRUE
    /\ last = Event("init", "-", "-", FALSE, FALSE)
    /\ stale = [i \in Nodes |-> FALSE]
    /\ normal = TRUE

----------------------------------------------------------------------------
(* Role coordinator *)

\* become_active without its guard: the presence is updated on every call
become_active_unguarded(active, sent, ok) ==
    [active |-> TRUE, presence |-> IF ok THEN sent + 1 ELSE sent, raised |-> ~ok]

\* become_active that sets the flag only once the presence update is through
become_active_after_presence(active, sent, ok) ==
    IF active
    THEN [active |-> active, presence |-> sent, raised |-> FALSE]
    ELSE [active |-> ok, presence |-> IF ok THEN sent + 1 ELSE sent,
          raised |-> ~ok]

\* a become_active that hands the activity back when called on an
\* instance that is already ACTIVE
become_active_toggle(active, sent, ok) ==
    [active |-> ~active, presence |-> IF ok THEN sent + 1 ELSE sent,
     raised |-> ~ok]

\* become_active: nothing when already ACTIVE; otherwise the flag is set
\* and then the presence is updated.  ok = FALSE is a change_presence that
\* raises: the flag stays set and the exception goes to the caller.
become_active(active, sent, ok) ==
    IF active
    THEN [active |-> active, presence |-> sent, raised |-> FALSE]
    ELSE [active |-> TRUE, presence |-> IF ok THEN sent + 1 ELSE sent,
          raised |-> ~ok]

\* become_standby: the symmetric guard
become_standby(active, sent, ok) ==
    IF ~active
    THEN [active |-> active, presence |-> sent, raised |-> FALSE]
    ELSE [active |-> FALSE, presence |-> IF ok THEN sent + 1 ELSE sent,
          raised |-> ~ok]

----------------------------------------------------------------------------
(* Health monitor *)

\* should_takeover without the role test
should_takeover_any_role(i) ==
    now - last_peer_heartbeat[i] > Grace

\* should_takeover with a grace period one loop period too long
should_takeover_late(i) ==
    IF role[i] = PRIMARY
    THEN FALSE
    ELSE now - last_peer_heartbeat[i] > Grace + Interval

\* HealthMonitor.should_takeover
should_takeover(i) ==
    IF role[i] = PRIMARY
    THEN FALSE
    ELSE now - last_peer_heartbeat[i] > Grace

\* HTTPServer.health_check of node j: the uptime is now - stats["start_time"],
\* which raises (and aiohttp answers 500) unless start_time is a datetime
health_check(j) ==
    IF stats[j].start_time.type = "datetime"
    THEN [transport |-> "ok", status |-> 200, json |-> TRUE,
          has_heartbeat |-> TRUE, last_heartbeat |-> isoformat(now),
          is_active |-> is_active_instance[j], role |-> role[j]]
    ELSE [transport |-> "ok", status |-> 500, json |-> FALSE,
          has_heartbeat |-> FALSE, last_heartbeat |-> BadIso,
          is_active |-> FALSE, role |-> "-"]

\* what a GET <peer>/health can come back with when the answer is not the
\* peer's own health report
NoAnswer ==
    {[transport |-> t, status |-> 0, json |-> FALSE, has_heartbeat |-> FALSE,
      last_heartbeat |-> BadIso, is_active |-> FALSE, role |-> "-"] :
         t \in {"error", "timeout"}}

Garbled ==
    { [transport |-> "ok", status |-> 200, json |-> FALSE, has_heartbeat |-> FALSE,
       last_heartbeat |-> BadIso, is_active |-> FALSE, role |-> "-"],
      [transport |-> "ok", status |-> 200, json |-> TRUE, has_heartbeat |-> FALSE,
       last_heartbeat |-> BadIso, is_active |-> TRUE, role |-> PRIMARY],
      [transport |-> "ok", status |-> 200, json |-> TRUE, has_heartbeat |-> TRUE,
       last_heartbeat |-> BadIso, is_active |-> TRUE, role |-> PRIMARY],
      [transport |-> "ok", status |-> 500, json |-> TRUE, has_heartbeat |-> TRUE,
       last_heartbeat |-> isoformat(now), is_active |-> TRUE, role |-> PRIMARY] }

\* the answers process i can get from its peer right now
PeerAnswers(i) ==
    IF peer_url[i] # None /\ peer_up
    THEN {health_check(peer_url[i])} \cup Garbled
    ELSE NoAnswer

\* a short name of an answer, for the record of the call
AnswerKind(resp) ==
    IF resp.transport # "ok" THEN resp.transport
    ELSE IF resp.status # 200 THEN "status"
    ELSE IF ~resp.json THEN "not_json"
    ELSE IF ~resp.has_heartbeat THEN "no_heartbeat"
    ELSE IF ~resp.last_heartbeat.ok THEN "bad_heartbeat"
    ELSE "ok"

\* check_peer_health's try block without the test of resp.status
check_peer_health_try_any_status(hb, resp) ==
    IF resp.transport # "ok" \/ ~resp.json \/ ~resp.has_heartbeat
          \/ fromisoformat(resp.last_heartbeat).raised
    THEN [heartbeat |-> hb, ret |-> FALSE, raised |-> TRUE]
    ELSE [heartbeat |-> fromisoformat(resp.last_heartbeat).value,
          ret |-> resp.is_active, raised |-> FALSE]

\* the body of check_peer_health's try block: what it leaves in
\* last_peer_heartbeat, what it returns, and whether it raised
check_peer_health_try(hb, resp) ==
    IF resp.transport # "ok"
    THEN [heartbeat |-> hb, ret |-> FALSE, raised |-> TRUE]
    ELSE IF resp.status = 200
    THEN IF ~resp.json \/ ~resp.has_heartbeat
              \/ fromisoformat(resp.last_heartbeat).raised
         THEN [heartbeat |-> hb, ret |-> FALSE, raised |-> TRUE]
         ELSE [heartbeat |-> fromisoformat(resp.last_heartbeat).value,
               ret |-> resp.is_active, raised |-> FALSE]
    ELSE [heartbeat |-> hb, ret |-> FALSE, raised |-> FALSE]

\* HealthMonitor.check_peer_health: no request without a peer or a session;
\* the bare except swallows whatever the try block raised
check_peer_health(i, resp) ==
    IF peer_url[i] = None \/ ~session[i]
    THEN [heartbeat |-> last_peer_heartbeat[i], ret |-> FALSE, raised |-> FALSE,
          requested |-> FALSE]
    ELSE LET r == check_peer_health_try(last_peer_heartbeat[i], resp)
         IN  [heartbeat |-> r.heartbeat, ret |-> IF r.raised THEN FALSE ELSE r.ret,
              raised |-> FALSE, requested |-> TRUE]

----------------------------------------------------------------------------
(* Custom-command registry and the control plane's sync ingest *)

\* CustomCommand.to_dict: asdict with created_at as ISO text
to_dict(cmd) == [cmd EXCEPT !.created_at = isoformat(@)]

\* the fields CustomCommand(...) reads with cmd_data[...] in sync_data
RequiredFields == {"name", "description", "response", "created_by", "created_at"}

\* the names in the bot's command table: the built-ins and those added
registered(table) == BuiltinCommands \cup DOMAIN table

\* add_dynamic_command: Bot.add_command refuses a name that is already in
\* the command table (CommandRegistrationError); otherwise the command is
\* registered under custom_cmd.name, bound to the registry entry `key`
add_dynamic_command(table, key, cmd) ==
    IF cmd.name \in registered(table)
    THEN [commands |-> table, raised |-> TRUE]
    ELSE [commands |-> (cmd.name :> key) @@ table, raised |-> FALSE]

\* stats.update that adds the incoming counters to the local ones
stats_update_additive(local, incoming) ==
    [k \in DOMAIN local \cup DOMAIN incoming |->
        IF k \notin DOMAIN incoming THEN local[k]
        ELSE IF k \notin DOMAIN local THEN incoming[k]
        ELSE IF local[k].type = "int" /\ incoming[k].type = "int"
        THEN IntVal(local[k].v + incoming[k].v)
        ELSE incoming[k]]

\* dict.update: every key of the incoming mapping is set to the incoming
\* value, the other keys are left alone
stats_update(local, incoming) ==
    [k \in DOMAIN local \cup DOMAIN incoming |->
        IF k \in DOMAIN incoming THEN incoming[k] ELSE local[k]]

\* the merge loop without "if name not in self.bot.custom_commands": an
\* incoming entry replaces the local one
RECURSIVE merge_custom_commands_overwrite(_, _, _, _)
merge_custom_commands_overwrite(cc, table, entries, dup) ==
    IF entries = <<>>
    THEN [custom_commands |-> cc, commands |-> table, raised |-> "", dup |-> dup]
    ELSE LET name == Head(entries)[1]
             cmd_data == Head(entries)[2]
         IN  IF ~(RequiredFields \subseteq DOMAIN cmd_data)
             THEN [custom_commands |-> cc, commands |-> table,
                   raised |-> "KeyError", dup |-> dup]
             ELSE IF fromisoformat(cmd_data.created_at).raised
             THEN [custom_commands |-> cc, commands |-> table,
                   raised |-> "ValueError", dup |-> dup]
             ELSE LET cmd == [name |-> cmd_data.name,
                              description |-> cmd_data.description,
                              response |-> cmd_data.response,
                              created_by |-> cmd_data.created_by,
                              created_at |-> fromisoformat(cmd_data.created_at).value,
                              usage_count |-> IF "usage_count" \in DOMAIN cmd_data
                                              THEN cmd_data.usage_count ELSE 0]
                      cc1 == (name :> cmd) @@ cc
                      reg == add_dynamic_command(table, name, cmd)
                  IN  IF reg.raised
                      THEN [custom_commands |-> cc1, commands |-> table,
                            raised |-> "CommandRegistrationError", dup |-> dup]
                      ELSE merge_custom_commands_overwrite(cc1, reg.commands,
                                                           Tail(entries), dup)

\* the merge loop that refuses a payload carrying a key the registry holds
RECURSIVE merge_custom_commands_dup_error(_, _, _, _)
merge_custom_commands_dup_error(cc, table, entries, dup) ==
    IF entries = <<>>
    THEN [custom_commands |-> cc, commands |-> table, raised |-> "", dup |-> dup]
    ELSE LET name == Head(entries)[1]
             cmd_data == Head(entries)[2]
         IN  IF name \in DOMAIN cc
             THEN [custom_commands |-> cc, commands |-> table,
                   raised |-> "ValueError", dup |-> TRUE]
             ELSE IF ~(RequiredFields \subseteq DOMAIN cmd_data)
             THEN [custom_commands |-> cc, commands |-> table,
                   raised |-> "KeyError", dup |-> dup]
             ELSE IF fromisoformat(cmd_data.created_at).raised
             THEN [custom_commands |-> cc, commands |-> table,
                   raised |-> "ValueError", dup |-> dup]
             ELSE LET cmd == [name |-> cmd_data.name,
                              description |-> cmd_data.description,
                              response |-> cmd_data.response,
                              created_by |-> cmd_data.created_by,
                              created_at |-> fromisoformat(cmd_data.created_at).value,
                              usage_count |-> IF "usage_count" \in DOMAIN cmd_data
                                              THEN cmd_data.usage_count ELSE 0]
                      cc1 == (name :> cmd) @@ cc
                      reg == add_dynamic_command(table, name, cmd)
                  IN  IF reg.raised
                      THEN [custom_commands |-> cc1, commands |-> table,
                            raised |-> "CommandRegistrationError", dup |-> dup]
                      ELSE merge_custom_commands_dup_error(cc1, reg.commands,
                                                           Tail(entries), dup)

\* the loop of HTTPServer.sync_data over data['custom_commands'].items(),
\* entries = <<key, cmd_data>> pairs in the order of the JSON object.
\* dup: an entry was skipped because its key is already in the registry;
\* raised: the exception that ended the loop ("" when it ran to its end).
RECURSIVE merge_custom_commands(_, _, _, _)
merge_custom_commands(cc, table, entries, dup) ==
    IF entries = <<>>
    THEN [custom_commands |-> cc, commands |-> table, raised |-> "", dup |-> dup]
    ELSE LET name == Head(entries)[1]
             cmd_data == Head(entries)[2]
         IN  IF name \in DOMAIN cc
             THEN merge_custom_commands(cc, table, Tail(entries), TRUE)
             ELSE IF ~(RequiredFields \subseteq DOMAIN cmd_data)
             THEN [custom_commands |-> cc, commands |-> table,
                   raised |-> "KeyError", dup |-> dup]
             ELSE IF fromisoformat(cmd_data.created_at).raised
             THEN [custom_commands |-> cc, commands |-> table,
                   raised |-> "ValueError", dup |-> dup]
             ELSE LET cmd == [name |-> cmd_data.name,
                              description |-> cmd_data.description,
                              response |-> cmd_data.response,
                              created_by |-> cmd_data.created_by,
                              created_at |-> fromisoformat(cmd_data.created_at).value,
                              usage_count |-> IF "usage_count" \in DOMAIN cmd_data
                                              THEN cmd_data.usage_count ELSE 0]
                      cc1 == (name :> cmd) @@ cc
                      reg == add_dynamic_command(table, name, cmd)
                  IN  IF reg.raised
                      THEN [custom_commands |-> cc1, commands |-> table,
                            raised |-> "CommandRegistrationError", dup |-> dup]
                      ELSE merge_custom_commands(cc1, reg.commands,
                                                 Tail(entries), dup)

\* the ingest that takes the peer's word: no test of the activity and
\* every incoming entry stored over the local one
HTTPServer_sync_data_overwrite(i, p) ==
    IF ~p.parses
    THEN [custom_commands |-> custom_commands[i], commands |-> commands[i],
          stats |-> stats[i], dup |-> FALSE, status |-> "error",
          raised |-> "JSONDecodeError"]
    ELSE LET m == merge_custom_commands_overwrite(custom_commands[i], commands[i],
                                                  p.custom_commands, FALSE)
             failed == m.raised # "" \/ ~p.stats_ok
         IN  [custom_commands |-> m.custom_commands, commands |-> m.commands,
              dup |-> m.dup,
              stats |-> IF failed THEN stats[i] ELSE stats_update(stats[i], p.stats),
              status |-> IF failed THEN "error" ELSE "success",
              raised |-> IF m.raised # "" THEN m.raised
                         ELSE IF ~p.stats_ok THEN "TypeError" ELSE ""]

\* the ingest without "if self.bot.is_active_instance": an ACTIVE node merges
HTTPServer_sync_data_unguarded(i, p) ==
    IF ~p.parses
    THEN [custom_commands |-> custom_commands[i], commands |-> commands[i],
          stats |-> stats[i], dup |-> FALSE, status |-> "error",
          raised |-> "JSONDecodeError"]
    ELSE LET m == merge_custom_commands(custom_commands[i], commands[i],
                                        p.custom_commands, FALSE)
             failed == m.raised # "" \/ ~p.stats_ok
         IN  [custom_commands |-> m.custom_commands, commands |-> m.commands,
              dup |-> m.dup,
              stats |-> IF failed THEN stats[i] ELSE stats_update(stats[i], p.stats),
              status |-> IF failed THEN "error" ELSE "success",
              raised |-> IF m.raised # "" THEN m.raised
                         ELSE IF ~p.stats_ok THEN "TypeError" ELSE ""]

\* the try block of HTTPServer.sync_data on node i, from the return of
\* await request.json() on, with request body p:
\*   p.parses            request.json() succeeds and gives an object
\*   p.custom_commands   the entries of data['custom_commands'] (none: <<>>)
\*   p.stats_ok, p.stats data.get('stats', {}) is a mapping, and the mapping
\* The result names the exception the except clause caught ("" if none).
HTTPServer_sync_data_merge(i, p) ==
    LET same == [custom_commands |-> custom_commands[i], commands |-> commands[i],
                 stats |-> stats[i], dup |-> FALSE]
    IN  IF ~p.parses
        THEN same @@ [status |-> "error", raised |-> "JSONDecodeError"]
        ELSE LET m == merge_custom_commands(custom_commands[i], commands[i],
                                            p.custom_commands, FALSE)
                 kept == [custom_commands |-> m.custom_commands,
                          commands |-> m.commands, dup |-> m.dup]
             IN  IF m.raised # ""
                 THEN kept @@ [stats |-> stats[i], status |-> "error",
                               raised |-> m.raised]
                 ELSE IF ~p.stats_ok
                 THEN kept @@ [stats |-> stats[i], status |-> "error",
                               raised |-> "TypeError"]
                 ELSE kept @@ [stats |-> stats_update(stats[i], p.stats),
                               status |-> "success",
                               raised |-> ""]

\* HTTPServer.sync_data run without interruption: the activity test, then
\* the try block
HTTPServer_sync_data(i, p) ==
    IF is_active_instance[i]
    THEN [custom_commands |-> custom_commands[i], commands |-> commands[i],
          stats |-> stats[i], dup |-> FALSE, status |-> "active_skip",
          raised |-> ""]
    ELSE HTTPServer_sync_data_merge(i, p)

----------------------------------------------------------------------------
(* Outbound sync push *)

SnapshotActions == 100     \* moderation_actions[-100:]
SnapshotWarnings == 50     \* warnings[-50:]

LastN(s, n) == IF Len(s) <= n THEN s ELSE SubSeq(s, Len(s) - n + 1, Len(s))

\* the items of a dict as a sequence of <<key, value>> pairs
RECURSIVE items(_)
items(d) ==
    IF DOMAIN d = {} THEN <<>>
    ELSE LET k == CHOOSE x \in DOMAIN d : TRUE
         IN  <<<<k, d[k]>>>> \o items([x \in DOMAIN d \ {k} |-> d[x]])

\* ModerationAction.to_dict, Warning.to_dict, DeoppedUser.to_dict: asdict
\* with the timestamp as ISO text
stamped_to_dict(r) == [r EXCEPT !.timestamp = isoformat(@)]

\* a snapshot that takes the oldest entries of the log and of the
\* warnings instead of the most recent ones
snapshot_oldest(i) ==
    [actions |-> LET a == SubSeq(moderation_actions[i], 1,
                                 IF Len(moderation_actions[i]) < SnapshotActions
                                 THEN Len(moderation_actions[i])
                                 ELSE SnapshotActions)
                 IN  [k \in DOMAIN a |-> stamped_to_dict(a[k])],
     warnings |-> LET w == SubSeq(warnings[i], 1,
                                  IF Len(warnings[i]) < SnapshotWarnings
                                  THEN Len(warnings[i]) ELSE SnapshotWarnings)
                  IN  [k \in DOMAIN w |-> stamped_to_dict(w[k])],
     deopped |-> LET d == items(deopped_users[i])
                 IN  [k \in DOMAIN d |->
                         <<ToString(d[k][1]), stamped_to_dict(d[k][2])>>],
     custom_commands |-> items([k \in DOMAIN custom_commands[i] |->
                                   to_dict(custom_commands[i][k])]),
     stats |-> stats[i],
     timestamp |-> isoformat(now)]

\* the dict HealthMonitor.sync_data builds from node i's stores
snapshot(i) ==
    [actions |-> LET a == LastN(moderation_actions[i], SnapshotActions)
                 IN  [k \in DOMAIN a |-> stamped_to_dict(a[k])],
     warnings |-> LET w == LastN(warnings[i], SnapshotWarnings)
                  IN  [k \in DOMAIN w |-> stamped_to_dict(w[k])],
     deopped |-> LET d == items(deopped_users[i])
                 IN  [k \in DOMAIN d |->
                         <<ToString(d[k][1]), stamped_to_dict(d[k][2])>>],
     custom_commands |-> items([k \in DOMAIN custom_commands[i] |->
                                   to_dict(custom_commands[i][k])]),
     stats |-> stats[i],
     timestamp |-> isoformat(now)]

\* session.post(json=...) serialises with json.dumps, which raises
\* TypeError on a datetime object; to_dict turned the other timestamps
\* into text, the stats copy is sent as it is
json_serializable(snap) ==
    \A k \in DOMAIN snap.stats : snap.stats[k].type # "datetime"

\* the request body as the peer's handler reads it back
as_payload(snap) ==
    [parses |-> TRUE, custom_commands |-> snap.custom_commands,
     stats_ok |-> TRUE, stats |-> snap.stats,
     actions |-> snap.actions, warnings |-> snap.warnings,
     deopped |-> snap.deopped]

\* HealthMonitor.sync_data without its except clause: what the try block
\* raises goes out to the caller
HealthMonitor_sync_data_no_except(i, delivered) ==
    IF peer_url[i] = None \/ ~session[i]
    THEN [outcome |-> "none", posts |-> 0, raised |-> FALSE]
    ELSE IF ~json_serializable(snapshot(i))
    THEN [outcome |-> "raised", posts |-> 0, raised |-> TRUE]
    ELSE IF ~(peer_up /\ delivered)
    THEN [outcome |-> "lost", posts |-> 1, raised |-> TRUE]
    ELSE [outcome |-> "posted", posts |-> 1, raised |-> FALSE]

\* HealthMonitor.sync_data that posts a second time when the first
\* request got no answer
HealthMonitor_sync_data_retry(i, delivered) ==
    IF peer_url[i] = None \/ ~session[i]
    THEN [outcome |-> "none", posts |-> 0, raised |-> FALSE]
    ELSE IF ~json_serializable(snapshot(i))
    THEN [outcome |-> "raised", posts |-> 0, raised |-> FALSE]
    ELSE IF ~(peer_up /\ delivered)
    THEN [outcome |-> "lost", posts |-> 2, raised |-> FALSE]
    ELSE [outcome |-> "posted", posts |-> 1, raised |-> FALSE]

\* HealthMonitor.sync_data of node i: "none" no peer or session, "raised"
\* the request could not be built, "lost" the peer did not answer,
\* otherwise the body that reaches the peer's POST /sync
HealthMonitor_sync_data(i, delivered) ==
    IF peer_url[i] = None \/ ~session[i]
    THEN [outcome |-> "none", posts |-> 0, raised |-> FALSE]
    ELSE IF ~json_serializable(snapshot(i))
    THEN [outcome |-> "raised", posts |-> 0, raised |-> FALSE]
    ELSE IF ~(peer_up /\ delivered)
    THEN [outcome |-> "lost", posts |-> 1, raised |-> FALSE]
    ELSE [outcome |-> "posted", posts |-> 1, raised |-> FALSE]

----------------------------------------------------------------------------
(* Actions *)

\* time passes
Tick(d) ==
    /\ now + d <= MaxTime
    /\ now' = now + d
    /\ last' = Event("tick", "-", "-", FALSE, FALSE)
    /\ UNCHANGED <<role, is_active_instance, peer_url, session,
                   last_peer_heartbeat, loop_running, pc, steps, presence,
                   stores, peer_up, stale, normal>>

\* on_ready: the session is created, the health loop started and the
\* presence set
on_ready(i) ==
    /\ ~loop_running[i]
    /\ session' = [session EXCEPT ![i] = TRUE]
    /\ loop_running' = [loop_running EXCEPT ![i] = TRUE]
    /\ presence' = [presence EXCEPT ![i] = @ + 1]
    /\ last' = Event("on_ready", i, "-", is_active_instance[i], FALSE)
    /\ UNCHANGED <<now, role, is_active_instance, peer_url, last_peer_heartbeat,
                   pc, steps, stores, peer_up, stale, normal>>

\* tasks.loop stops a loop whose iteration lets an exception out: the
\* loop body without its try / except
health_loop_try_no_except(raised) == ~raised

\* the try / except Exception around the body of health_loop: whatever
\* the body raised is logged, the iteration returns normally and the
\* loop keeps running
health_loop_try(raised) == TRUE

\* health_loop, first statement: the takeover decision and the promotion.
\* An exception of become_active (ok = FALSE) ends the cycle in the
\* loop's except clause.
health_loop_takeover(i, ok) ==
    /\ loop_running[i] /\ pc[i] = "idle"
    /\ LET want == role[i] = SECONDARY /\ should_takeover(i)
           r == IF want
                THEN become_active(is_active_instance[i], presence[i], ok)
                ELSE [active |-> is_active_instance[i],
                      presence |-> presence[i], raised |-> FALSE]
       IN  /\ is_active_instance' = [is_active_instance EXCEPT ![i] = r.active]
           /\ presence' = [presence EXCEPT ![i] = r.presence]
           /\ steps' = [steps EXCEPT ![i] =
                           IF want THEN <<"takeover", "become_active">>
                                   ELSE <<"takeover">>]
           /\ pc' = [pc EXCEPT ![i] = IF r.raised THEN "idle" ELSE "sync_data"]
           /\ last' = Event("takeover", i, "-", want, r.raised)
           /\ loop_running' = [loop_running EXCEPT ![i] = health_loop_try(r.raised)]
    /\ stale' = [stale EXCEPT ![i] =
                    @ \/ ( /\ role[i] = SECONDARY
                           /\ ~is_active_instance[i]
                           /\ now - last_peer_heartbeat[i] > Grace )]
    /\ UNCHANGED <<now, role, peer_url, session, last_peer_heartbeat,
                   stores, peer_up, normal>>

\* health_loop, second statement: the outbound sync push; a body that
\* reaches the peer is handled by the peer's POST /sync
health_loop_sync(i, delivered) ==
    /\ pc[i] = "sync_data"
    /\ LET out == HealthMonitor_sync_data(i, delivered)
           j == peer_url[i]
           h == HTTPServer_sync_data(j, as_payload(snapshot(i)))
           ev == IF out.outcome = "posted"
                 THEN Event("sync_data", i, h.status, h.dup, out.raised)
                 ELSE Event("sync_data", i, out.outcome, FALSE, out.raised)
       IN  /\ IF out.outcome = "posted"
              THEN /\ custom_commands' = [custom_commands EXCEPT ![j] = h.custom_commands]
                   /\ commands' = [commands EXCEPT ![j] = h.commands]
                   /\ stats' = [stats EXCEPT ![j] = h.stats]
              ELSE UNCHANGED <<custom_commands, commands, stats>>
           /\ last' = [ev EXCEPT !.arg = ToString(out.posts)]
           /\ pc' = [pc EXCEPT ![i] = IF out.raised THEN "idle"
                                      ELSE "check_peer_health"]
           /\ loop_running' = [loop_running EXCEPT ![i] =
                                   health_loop_try(out.raised)]
    /\ steps' = [steps EXCEPT ![i] = Append(@, "sync_data")]
    /\ UNCHANGED <<now, role, is_active_instance, peer_url, session,
                   last_peer_heartbeat, presence,
                   moderation_actions, warnings, deopped_users,
                   next_warning_id, peer_up, stale, normal>>

\* health_loop, third statement: the health check of the peer
health_loop_check(i, resp) ==
    /\ pc[i] = "check_peer_health"
    /\ LET r == check_peer_health(i, resp)
           kind == IF r.requested THEN AnswerKind(resp) ELSE "no_peer"
       IN  /\ last_peer_heartbeat' = [last_peer_heartbeat EXCEPT ![i] = r.heartbeat]
           /\ last' = [Event("check_peer_health", i, kind, r.ret, r.raised)
                          EXCEPT !.arg = IF r.requested THEN "1" ELSE "0"]
           /\ normal' = (normal /\ kind \in {"ok", "no_peer"})
    /\ steps' = [steps EXCEPT ![i] = Append(@, "check_peer_health")]
    /\ pc' = [pc EXCEPT ![i] = "idle"]
    /\ UNCHANGED <<now, role, is_active_instance, peer_url, session,
                   loop_running, presence, stores, peer_up, stale>>

\* GET /health on node i
GetHealth(i) ==
    /\ LET resp == health_check(i)
       IN  last' = Event("GET /health", i,
                         IF resp.status = 200 THEN "200" ELSE "500",
                         resp.is_active, FALSE)
    /\ UNCHANGED <<now, role, is_active_instance, peer_url, session,
                   last_peer_heartbeat, loop_running, pc, steps, presence,
                   stores, peer_up, stale, normal>>

\* process A stops answering, or answers again
PeerDown ==
    /\ peer_up
    /\ peer_up' = FALSE
    /\ normal' = FALSE
    /\ last' = Event("peer_down", "A", "-", FALSE, FALSE)
    /\ UNCHANGED <<now, role, is_active_instance, peer_url, session,
                   last_peer_heartbeat, loop_running, pc, steps, presence,
                   stores, stale>>

PeerBack ==
    /\ ~peer_up
    /\ peer_up' = TRUE
    /\ last' = Event("peer_back", "A", "-", FALSE, FALSE)
    /\ UNCHANGED <<now, role, is_active_instance, peer_url, session,
                   last_peer_heartbeat, loop_running, pc, steps, presence,
                   stores, stale, normal>>

Next ==
    \/ \E d \in Delays : Tick(d)
    \/ \E i \in Nodes : on_ready(i)
    \/ \E i \in Nodes, ok \in BOOLEAN : health_loop_takeover(i, ok)
    \/ \E i \in Nodes, delivered \in BOOLEAN : health_loop_sync(i, delivered)
    \/ \E i \in Nodes : \E resp \in PeerAnswers(i) : health_loop_check(i, resp)
    \/ \E i \in Nodes : GetHealth(i)
    \/ PeerDown
    \/ PeerBack

Spec == Init /\ [][Next]_vars

----------------------------------------------------------------------------
(* SpecSync: requests to POST /sync and the addcmd chat command *)

\* two definitions a command name can be given
Versions == {1, 2}

\* a well-formed cmd_data, as CustomCommand.to_dict writes it; version 1
\* carries no usage_count
CmdData(n, v) ==
    IF v = 1
    THEN [name |-> n, description |-> "first", response |-> "hello {user}",
          created_by |-> 1, created_at |-> isoformat(1)]
    ELSE [name |-> n, description |-> "second", response |-> "bye {user}",
          created_by |-> 2, created_at |-> isoformat(2), usage_count |-> 3]

\* the <<key, cmd_data>> pairs a request body can carry: well-formed
\* ones, one without 'response', one whose created_at does not parse, and
\* one whose name is a built-in command and differs from its key
SampleEntries ==
    { <<"rules", CmdData("rules", 1)>>,
      <<"rules", CmdData("rules", 2)>>,
      <<"faq", CmdData("faq", 1)>>,
      <<"faq", [name |-> "faq", description |-> "first", created_by |-> 1,
                created_at |-> isoformat(1)]>>,
      <<"faq", [CmdData("faq", 1) EXCEPT !.created_at = BadIso]>>,
      <<"alias", CmdData("ban", 1)>> }

\* the sequences of at most n entries with distinct keys
RECURSIVE EntrySeqs(_)
EntrySeqs(n) ==
    IF n = 0 THEN {<<>>}
    ELSE EntrySeqs(n - 1) \cup
         { Append(s, e) : s \in {t \in EntrySeqs(n - 1) : Len(t) = n - 1},
                          e \in SampleEntries }

DistinctKeys(s) == \A a, b \in DOMAIN s : a # b => s[a][1] # s[b][1]

\* the 'stats' member of a body: absent, a mapping with a counter and a
\* start_time (text on the wire), a mapping with the counter alone, or
\* not a mapping at all
SampleStats ==
    { [stats_ok |-> TRUE, stats |-> <<>>],
      [stats_ok |-> TRUE, stats |-> [bans |-> IntVal(5), start_time |-> StrVal(0)]],
      [stats_ok |-> TRUE, stats |-> [bans |-> IntVal(7)]],
      [stats_ok |-> FALSE, stats |-> <<>>] }

Payloads ==
    { [parses |-> FALSE, custom_commands |-> <<>>, stats_ok |-> TRUE, stats |-> <<>>] }
    \cup { [parses |-> TRUE, custom_commands |-> s, stats_ok |-> st.stats_ok,
            stats |-> st.stats] :
           s \in {t \in EntrySeqs(MaxEntries) : DistinctKeys(t)},
           st \in SampleStats }

\* a POST /sync that also takes over the deopped users of the body
PostSync_merging_deopped(i, p) ==
    /\ LET h == HTTPServer_sync_data(i, p)
       IN  /\ custom_commands' = [custom_commands EXCEPT ![i] = h.custom_commands]
           /\ commands' = [commands EXCEPT ![i] = h.commands]
           /\ stats' = [stats EXCEPT ![i] = h.stats]
           /\ deopped_users' = [deopped_users EXCEPT ![i] =
                  LET mine == deopped_users[i]
                      inc == {p.deopped[k][2] : k \in DOMAIN p.deopped}
                  IN  IF h.status # "success" THEN mine
                      ELSE [u \in DOMAIN mine \cup {r.user_id : r \in inc} |->
                               IF u \in DOMAIN mine THEN mine[u]
                               ELSE CHOOSE r \in inc : r.user_id = u]]
           /\ last' = [Event("POST /sync", i, h.status, h.dup, FALSE)
                          EXCEPT !.caught = h.raised]
    /\ UNCHANGED <<now, role, is_active_instance, peer_url, session,
                   last_peer_heartbeat, loop_running, pc, steps, presence,
                   moderation_actions, warnings,
                   next_warning_id, peer_up, stale, normal>>

\* POST /sync on node i with body p
PostSync(i, p) ==
    /\ LET h == HTTPServer_sync_data(i, p)
       IN  /\ custom_commands' = [custom_commands EXCEPT ![i] = h.custom_commands]
           /\ commands' = [commands EXCEPT ![i] = h.commands]
           /\ stats' = [stats EXCEPT ![i] = h.stats]
           /\ last' = [Event("POST /sync", i, h.status, h.dup, FALSE)
                          EXCEPT !.caught = h.raised]
    /\ UNCHANGED <<now, role, is_active_instance, peer_url, session,
                   last_peer_heartbeat, loop_running, pc, steps, presence,
                   moderation_actions, warnings, deopped_users,
                   next_warning_id, peer_up, stale, normal>>

\* chat users: 1 is on config["admin_users"], 2 is an ordinary member
Users == {1, 2}

\* the member who owns the guild
GuildOwner == 4

\* is_admin: the name is on config["admin_users"], or the member is the
\* owner of the guild
is_admin(u) == u = 1 \/ u = GuildOwner

\* str.lower() on the names the model types in chat
lower(n) == IF n = "Rules" THEN "rules" ELSE n
TypedNames == {"rules", "Rules", "ban"}

\* process_commands without the test of the activity
process_commands_ungated(i) == TRUE

\* BanBot3000HA.process_commands: a message is handed to the command
\* framework only while the instance is ACTIVE
process_commands(i) == is_active_instance[i]

\* the addcmd command typed by user u on node i
addcmd(i, u, typed, v) ==
    /\ LET name == lower(typed)
           custom_cmd == [name |-> name, description |-> CmdData(name, v).description,
                          response |-> CmdData(name, v).response,
                          created_by |-> u, created_at |-> now, usage_count |-> 0]
       IN  IF ~process_commands(i)
           THEN /\ last' = Event("addcmd", i, "dropped", FALSE, FALSE)
                /\ UNCHANGED <<custom_commands, commands>>
           ELSE IF ~is_active_instance[i] \/ ~is_admin(u)
           THEN /\ last' = Event("addcmd", i, "admin_only", FALSE, FALSE)
                /\ UNCHANGED <<custom_commands, commands>>
           ELSE IF name \in registered(commands[i]) \/ name \in DOMAIN custom_commands[i]
           THEN /\ last' = Event("addcmd", i, "exists", FALSE, FALSE)
                /\ UNCHANGED <<custom_commands, commands>>
           ELSE LET reg == add_dynamic_command(commands[i], name, custom_cmd)
                IN  /\ custom_commands' = [custom_commands EXCEPT ![i] =
                                              (name :> custom_cmd) @@ @]
                    /\ commands' = [commands EXCEPT ![i] = reg.commands]
                    /\ last' = Event("addcmd", i, "added", FALSE, reg.raised)
    /\ UNCHANGED <<now, role, is_active_instance, peer_url, session,
                   last_peer_heartbeat, loop_running, pc, steps, presence,
                   stats, moderation_actions, warnings, deopped_users,
                   next_warning_id, peer_up, stale, normal>>

NextSync ==
    \/ \E i \in Nodes, p \in Payloads : PostSync(i, p)
    \/ \E i \in Nodes, u \in Users, n \in TypedNames, v \in Versions :
           addcmd(i, u, n, v)

SpecSync == Init /\ [][NextSync]_vars

----------------------------------------------------------------------------
(* SpecCoord: the coordinator's two operations called in any order *)

CallBecomeActive(i, ok) ==
    /\ presence[i] < MaxPresence
    /\ LET r == become_active(is_active_instance[i], presence[i], ok)
       IN  /\ is_active_instance' = [is_active_instance EXCEPT ![i] = r.active]
           /\ presence' = [presence EXCEPT ![i] = r.presence]
           /\ last' = Event("become_active", i, "-", r.active, r.raised)
    /\ UNCHANGED <<now, role, peer_url, session, last_peer_heartbeat,
                   loop_running, pc, steps, stores, peer_up, stale, normal>>

CallBecomeStandby(i, ok) ==
    /\ presence[i] < MaxPresence
    /\ LET r == become_standby(is_active_instance[i], presence[i], ok)
       IN  /\ is_active_instance' = [is_active_instance EXCEPT ![i] = r.active]
           /\ presence' = [presence EXCEPT ![i] = r.presence]
           /\ last' = Event("become_standby", i, "-", r.active, r.raised)
    /\ UNCHANGED <<now, role, peer_url, session, last_peer_heartbeat,
                   loop_running, pc, steps, stores, peer_up, stale, normal>>

NextCoord ==
    \/ \E i \in Nodes, ok \in BOOLEAN : CallBecomeActive(i, ok)
    \/ \E i \in Nodes, ok \in BOOLEAN : CallBecomeStandby(i, ok)

SpecCoord == Init /\ [][NextCoord]_vars

----------------------------------------------------------------------------
(* SpecPair: the two instances create custom commands with addcmd (the    *)
(* SECONDARY once it has been promoted) and each receives, at POST /sync, *)
(* the custom commands of the other's snapshot.                            *)

Other(i) == CHOOSE j \in Nodes : j # i

\* POST /sync on node i with the body that the other node's
\* HealthMonitor.sync_data builds from its snapshot (custom commands,
\* actions, warnings, deopped users), and a stats member st
PeerSync(i, st) ==
    PostSync(i, [as_payload(snapshot(Other(i))) EXCEPT
                    !.stats_ok = st.stats_ok, !.stats = st.stats])

NextPair ==
    \/ \E i \in Nodes, ok \in BOOLEAN : CallBecomeActive(i, ok)
    \/ \E i \in Nodes, u \in Users, n \in TypedNames, v \in Versions :
           addcmd(i, u, n, v)
    \/ \E i \in Nodes, st \in SampleStats : PeerSync(i, st)

SpecPair == Init /\ [][NextPair]_vars

----------------------------------------------------------------------------
(* SpecChat: the chat commands.  Every command is typed in a guild        *)
(* channel by user 1 (on config["admin_users"], lowest role) or by user 2 *)
(* (a moderator with the ban_members permission); user 3 is a member with *)
(* the moderator's role who types nothing.                                *)

Members == {1, 2, 3}
top_role(m) == IF m = 1 THEN 1 ELSE 2
GuildPermissions(m) == IF m = 2 THEN {"ban"} ELSE {}

LogCeiling == 500      \* log_action: len(self.moderation_actions) > 500
LogRetained == 250     \* log_action: self.moderation_actions[-250:]

is_deopped(i, u) == u \in DOMAIN deopped_users[i]

\* has_permission: an admin may do anything, "warn" is open to every
\* member, the other actions need the guild permission
has_permission(u, action) ==
    \/ is_admin(u)
    \/ action = "warn"
    \/ action \in GuildPermissions(u)

\* an is_authorized that does not look at the deopped-user map
is_authorized_ignoring_deopped(i, u, action) ==
    /\ is_active_instance[i]
    /\ has_permission(u, action)

\* is_authorized (the author is always a guild Member here)
is_authorized(i, u, action) ==
    /\ is_active_instance[i]
    /\ ~is_deopped(i, u)
    /\ has_permission(u, action)

\* the stores of node i as a command finds them, and what the command
\* leaves: reply is the title of the embed it sent, "silent" when it
\* returned without sending
Local(i) ==
    [moderation_actions |-> moderation_actions[i], warnings |-> warnings[i],
     next_warning_id |-> next_warning_id[i], deopped_users |-> deopped_users[i],
     stats |-> stats[i], custom_commands |-> custom_commands[i],
     commands |-> commands[i], reply |-> "silent"]

\* stats[k] += 1
Inc(st, k) == [st EXCEPT ![k] = IntVal(@.v + 1)]

\* f"{action.action.value}s"
CounterOf(kind) ==
    IF kind = "ban" THEN "bans" ELSE IF kind = "kick" THEN "kicks"
    ELSE IF kind = "timeout" THEN "timeouts" ELSE IF kind = "warn" THEN "warns"
    ELSE "deops"

\* a log_action that keeps the oldest entries when it cuts the log
log_action_keeps_oldest(log, st, action) ==
    LET key == CounterOf(action.action)
        log1 == Append(log, [action EXCEPT !.timestamp = now])
        old == IF key \in DOMAIN st THEN st[key].v ELSE 0
    IN  [moderation_actions |-> IF Len(log1) > LogCeiling
                                THEN SubSeq(log1, 1, LogRetained) ELSE log1,
         stats |-> [k \in DOMAIN st \cup {key} |->
                       IF k = key THEN IntVal(old + 1) ELSE st[k]]]

\* log_action: the action is stamped and appended, its counter is
\* stats.get(key, 0) + 1, and a log longer than 500 is cut to its last 250
log_action(log, st, action) ==
    LET key == CounterOf(action.action)
        log1 == Append(log, [action EXCEPT !.timestamp = now])
        old == IF key \in DOMAIN st THEN st[key].v ELSE 0
    IN  [moderation_actions |-> IF Len(log1) > LogCeiling
                                THEN LastN(log1, LogRetained) ELSE log1,
         stats |-> [k \in DOMAIN st \cup {key} |->
                       IF k = key THEN IntVal(old + 1) ELSE st[k]]]

\* add_warning
add_warning(ws, id, st, user_id, moderator_id) ==
    [warnings |-> Append(ws, [id |-> id, user_id |-> user_id,
                              moderator_id |-> moderator_id, timestamp |-> now]),
     next_warning_id |-> id + 1,
     stats |-> Inc(st, "warnings")]

\* a ban that logs the action only once member.ban went through
ban_logged_on_success(i, u, m, forbidden) ==
    IF ~is_authorized(i, u, "ban")
    THEN [Local(i) EXCEPT !.reply = "Access Denied"]
    ELSE IF m = u \/ (top_role(m) >= top_role(u) /\ ~is_admin(u))
    THEN [Local(i) EXCEPT !.reply = "Invalid Target"]
    ELSE IF forbidden
    THEN [Local(i) EXCEPT !.reply = "No Permission"]
    ELSE LET l == log_action(moderation_actions[i], stats[i],
                             [user_id |-> m, moderator_id |-> u,
                              action |-> "ban", timestamp |-> now])
         IN  [Local(i) EXCEPT !.moderation_actions = l.moderation_actions,
                              !.stats = l.stats,
                              !.reply = "User Banned"]

\* the ban command; forbidden: member.ban raises discord.Forbidden
ban(i, u, m, forbidden) ==
    IF ~is_authorized(i, u, "ban")
    THEN [Local(i) EXCEPT !.reply = "Access Denied"]
    ELSE IF m = u \/ (top_role(m) >= top_role(u) /\ ~is_admin(u))
    THEN [Local(i) EXCEPT !.reply = "Invalid Target"]
    ELSE LET l == log_action(moderation_actions[i], stats[i],
                             [user_id |-> m, moderator_id |-> u,
                              action |-> "ban", timestamp |-> now])
         IN  [Local(i) EXCEPT !.moderation_actions = l.moderation_actions,
                              !.stats = l.stats,
                              !.reply = IF forbidden THEN "No Permission"
                                        ELSE "User Banned"]

\* the kick command; forbidden: member.kick raises discord.Forbidden
kick(i, u, m, forbidden) ==
    IF ~is_authorized(i, u, "kick")
    THEN [Local(i) EXCEPT !.reply = "Access Denied"]
    ELSE IF m = u \/ (top_role(m) >= top_role(u) /\ ~is_admin(u))
    THEN [Local(i) EXCEPT !.reply = "Invalid Target"]
    ELSE LET l == log_action(moderation_actions[i], stats[i],
                             [user_id |-> m, moderator_id |-> u,
                              action |-> "kick", timestamp |-> now])
         IN  [Local(i) EXCEPT !.moderation_actions = l.moderation_actions,
                              !.stats = l.stats,
                              !.reply = IF forbidden THEN "No Permission"
                                        ELSE "User Kicked"]

\* the durations the model types after the timeout command
Durations == {"2h", "29d", "soon"}
MaxTimeoutMinutes == 40320     \* timeout: 28 * 1440

\* parse_duration: minutes of an "<n>m", "<n>h" or "<n>d" string, ValueError
\* for anything else
parse_duration(duration) ==
    IF duration = "2h" THEN [raised |-> FALSE, minutes |-> 2 * 60]
    ELSE IF duration = "29d" THEN [raised |-> FALSE, minutes |-> 29 * 1440]
    ELSE [raised |-> TRUE, minutes |-> 0]

\* the timeout command; forbidden: member.timeout raises discord.Forbidden
timeout(i, u, m, duration, forbidden) ==
    LET d == parse_duration(duration)
    IN  IF ~is_authorized(i, u, "timeout")
        THEN [Local(i) EXCEPT !.reply = "Access Denied"]
        ELSE IF d.raised
        THEN [Local(i) EXCEPT !.reply = "Invalid Duration"]
        ELSE IF d.minutes > MaxTimeoutMinutes
        THEN [Local(i) EXCEPT !.reply = "Max 28 days"]
        ELSE LET l == log_action(moderation_actions[i], stats[i],
                                 [user_id |-> m, moderator_id |-> u,
                                  action |-> "timeout", timestamp |-> now,
                                  duration |-> d.minutes])
             IN  [Local(i) EXCEPT !.moderation_actions = l.moderation_actions,
                                  !.stats = l.stats,
                                  !.reply = IF forbidden THEN "No Permission"
                                            ELSE "User Timed Out"]

\* the cleanup command; forbidden: channel.purge raises discord.Forbidden
cleanup(i, u, amount, forbidden) ==
    IF ~is_authorized(i, u, "cleanup")
    THEN [Local(i) EXCEPT !.reply = "Access Denied"]
    ELSE IF ~(1 <= amount /\ amount <= 100)
    THEN [Local(i) EXCEPT !.reply = "Amount 1-100 only"]
    ELSE [Local(i) EXCEPT !.reply = IF forbidden THEN "No Permission"
                                    ELSE "Cleanup"]

\* the warn command
warn(i, u, m) ==
    IF ~is_authorized(i, u, "warn")
    THEN [Local(i) EXCEPT !.reply = "You're deopped"]
    ELSE IF m = u
    THEN [Local(i) EXCEPT !.reply = "Can't warn yourself"]
    ELSE LET w == add_warning(warnings[i], next_warning_id[i], stats[i], m, u)
         IN  [Local(i) EXCEPT !.warnings = w.warnings,
                              !.next_warning_id = w.next_warning_id,
                              !.stats = w.stats,
                              !.reply = "User Warned"]

\* the deop command
deop(i, u, m) ==
    IF ~is_active_instance[i] \/ ~is_admin(u)
    THEN [Local(i) EXCEPT !.reply = "Admin Only"]
    ELSE IF m = u
    THEN [Local(i) EXCEPT !.reply = "Can't deop yourself"]
    ELSE LET d == deopped_users[i]
             rec == [user_id |-> m, deopped_by |-> u, timestamp |-> now]
         IN  [Local(i) EXCEPT
                 !.deopped_users = [k \in DOMAIN d \cup {m} |->
                                       IF k = m THEN rec ELSE d[k]],
                 !.stats = Inc(stats[i], "deops"),
                 !.reply = "User Deopped"]

\* a reop that forgives every restricted user at once
reop_all(i, u, m) ==
    IF ~is_active_instance[i] \/ ~is_admin(u)
    THEN [Local(i) EXCEPT !.reply = "Admin Only"]
    ELSE IF m \notin DOMAIN deopped_users[i]
    THEN [Local(i) EXCEPT !.reply = "User not deopped"]
    ELSE [Local(i) EXCEPT !.deopped_users = <<>>, !.reply = "User Reopped"]

\* the reop command
reop(i, u, m) ==
    IF ~is_active_instance[i] \/ ~is_admin(u)
    THEN [Local(i) EXCEPT !.reply = "Admin Only"]
    ELSE IF m \notin DOMAIN deopped_users[i]
    THEN [Local(i) EXCEPT !.reply = "User not deopped"]
    ELSE [Local(i) EXCEPT
             !.deopped_users = [k \in DOMAIN deopped_users[i] \ {m} |->
                                   deopped_users[i][k]],
             !.reply = "User Reopped"]

\* the delcmd command: the registry entry is popped and the command of
\* that name taken out of the command table
delcmd(i, u, typed) ==
    LET name == lower(typed)
        cc == custom_commands[i]
    IN  IF ~is_active_instance[i] \/ ~is_admin(u)
        THEN [Local(i) EXCEPT !.reply = "Admin Only"]
        ELSE IF name \notin DOMAIN cc
        THEN [Local(i) EXCEPT !.reply = "Command not found"]
        ELSE [Local(i) EXCEPT
                 !.custom_commands = [k \in DOMAIN cc \ {name} |-> cc[k]],
                 !.commands = [k \in DOMAIN commands[i] \ {name} |->
                                  commands[i][k]],
                 !.reply = "Custom Command Deleted"]

\* the ping command
ping(i) ==
    IF ~is_active_instance[i]
    THEN Local(i)
    ELSE [Local(i) EXCEPT !.reply = "Pong"]

\* a dynamic_command_func that answers without counting the use
dynamic_command_func_uncounted(i, name) ==
    IF ~is_active_instance[i]
    THEN Local(i)
    ELSE [Local(i) EXCEPT !.stats = Inc(stats[i], "custom_commands_used"),
                          !.reply = "custom"]

\* dynamic_command_func of the command registered under `name`: the
\* usage counter of its CustomCommand and stats["custom_commands_used"]
dynamic_command_func(i, name) ==
    LET key == commands[i][name]
        cc == custom_commands[i]
    IN  IF ~is_active_instance[i]
        THEN Local(i)
        ELSE [Local(i) EXCEPT
                 !.custom_commands =
                     IF key \in DOMAIN cc
                     THEN [cc EXCEPT ![key].usage_count = @ + 1] ELSE cc,
                 !.stats = Inc(stats[i], "custom_commands_used"),
                 !.reply = "custom"]

\* on_command_error with CommandNotFound (a name that is no command)
on_command_error(i) ==
    IF ~is_active_instance[i]
    THEN Local(i)
    ELSE [Local(i) EXCEPT !.stats = Inc(stats[i], "commands_used")]

\* the commands of node i that left a trace so far
Effort(i) ==
    Len(moderation_actions[i]) + Len(warnings[i]) + stats[i].deops.v
        + stats[i].commands_used.v + stats[i].custom_commands_used.v

\* a chat message with command op reaches node i: process_commands
\* either drops it or lets the command run, with result r
InvokeOn(i, op, arg, r) ==
    LET out == IF process_commands(i) THEN r
               ELSE [Local(i) EXCEPT !.reply = "dropped"]
    IN  /\ moderation_actions' = [moderation_actions EXCEPT ![i] = out.moderation_actions]
        /\ warnings' = [warnings EXCEPT ![i] = out.warnings]
        /\ next_warning_id' = [next_warning_id EXCEPT ![i] = out.next_warning_id]
        /\ deopped_users' = [deopped_users EXCEPT ![i] = out.deopped_users]
        /\ stats' = [stats EXCEPT ![i] = out.stats]
        /\ custom_commands' = [custom_commands EXCEPT ![i] = out.custom_commands]
        /\ commands' = [commands EXCEPT ![i] = out.commands]
        /\ last' = [Event(op, i, out.reply, FALSE, FALSE) EXCEPT !.arg = arg]
        /\ UNCHANGED <<now, role, is_active_instance, peer_url, session,
                       last_peer_heartbeat, loop_running, pc, steps, presence,
                       peer_up, stale, normal>>

Invoke(i, op, r) == InvokeOn(i, op, "", r)

ChatBan(i, u, m, forbidden) ==
    Effort(i) < MaxChat /\ Invoke(i, "ban", ban(i, u, m, forbidden))

ChatWarn(i, u, m) ==
    Effort(i) < MaxChat /\ InvokeOn(i, "warn", ToString(m), warn(i, u, m))

ChatDeop(i, u, m) ==
    Effort(i) < MaxChat /\ InvokeOn(i, "deop", ToString(m), deop(i, u, m))

ChatReop(i, u, m) == InvokeOn(i, "reop", ToString(m), reop(i, u, m))

ChatDelcmd(i, u, typed) == Invoke(i, "delcmd", delcmd(i, u, typed))

ChatPing(i) == Invoke(i, "ping", ping(i))

ChatCustom(i, name) ==
    /\ name \in DOMAIN commands[i]
    /\ Effort(i) < MaxChat
    /\ InvokeOn(i, "custom", name, dynamic_command_func(i, name))

ChatUnknown(i) ==
    Effort(i) < MaxChat /\ Invoke(i, "unknown", on_command_error(i))

ChatOps == {"ban", "warn", "deop", "reop", "addcmd", "delcmd", "ping",
            "custom", "unknown"}

\* a sync body without a stats member
NoStats == [stats_ok |-> TRUE, stats |-> <<>>]

NextChat ==
    \/ \E i \in Nodes, u \in Users, m \in Members, forbidden \in BOOLEAN :
           ChatBan(i, u, m, forbidden)
    \/ \E i \in Nodes, u \in Users, m \in Users : ChatWarn(i, u, m)
    \/ \E i \in Nodes, u \in Users, m \in Users : ChatDeop(i, u, m)
    \/ \E i \in Nodes, u \in Users, m \in Users : ChatReop(i, u, m)
    \/ \E i \in Nodes, u \in Users, n \in TypedNames : addcmd(i, u, n, 1)
    \/ \E i \in Nodes, u \in Users, n \in TypedNames : ChatDelcmd(i, u, n)
    \/ \E i \in Nodes : ChatPing(i)
    \/ \E i \in Nodes : \E n \in DOMAIN commands[i] : ChatCustom(i, n)
    \/ \E i \in Nodes : ChatUnknown(i)
    \/ \E i \in Nodes : PeerSync(i, NoStats)

SpecChat == Init /\ [][NextChat]_vars

----------------------------------------------------------------------------
(* SpecAuth: who may run what.  The admin on the list (1), a moderator    *)
(* (2) and the guild owner (4, an admin too) type the moderation commands *)
(* and the admin-only commands against each other; `arg` of the event     *)
(* holds the author and the argument of the command.  warn and deop are   *)
(* typed in front of both instances, the other commands in front of the   *)
(* PRIMARY.                                                               *)

Authors == Users \cup {GuildOwner}
Amounts == {0, 10}

MaxDeops == 2      \* deop commands that go through on one node

\* no moderation command left a trace on node i yet
Fresh(i) == moderation_actions[i] = <<>> /\ warnings[i] = <<>>

\* the author and the argument of a message
Typed(u, x) == ToString(u) \o ">" \o x

AuthBan(i, u, m) ==
    Fresh(i)
        /\ InvokeOn(i, "ban", Typed(u, ToString(m)), ban(i, u, m, FALSE))

AuthKick(i, u, m) ==
    Fresh(i)
        /\ InvokeOn(i, "kick", Typed(u, ToString(m)), kick(i, u, m, FALSE))

AuthTimeout(i, u, m) ==
    Fresh(i)
        /\ InvokeOn(i, "timeout", Typed(u, ToString(m)),
                    timeout(i, u, m, "2h", FALSE))

AuthWarn(i, u, m) ==
    Fresh(i)
        /\ InvokeOn(i, "warn", Typed(u, ToString(m)), warn(i, u, m))

AuthCleanup(i, u, amount, forbidden) ==
    InvokeOn(i, "cleanup", Typed(u, ToString(amount)),
             cleanup(i, u, amount, forbidden))

AuthDeop(i, u, m) ==
    stats[i].deops.v < MaxDeops
        /\ InvokeOn(i, "deop", Typed(u, ToString(m)), deop(i, u, m))

AuthReop(i, u, m) ==
    InvokeOn(i, "reop", Typed(u, ToString(m)), reop(i, u, m))

AuthDelcmd(i, u) ==
    InvokeOn(i, "delcmd", Typed(u, "rules"), delcmd(i, u, "rules"))

\* addcmd typed by one of the two admins
AuthAddcmd(i, u) == is_admin(u) /\ addcmd(i, u, "rules", 1)

NextAuth ==
    \/ \E u \in Authors : \E m \in Users \ {u} : AuthBan("A", u, m)
    \/ \E u \in Authors : \E m \in Users \ {u} : AuthKick("A", u, m)
    \/ \E u \in Authors : \E m \in Users \ {u} : AuthTimeout("A", u, m)
    \/ \E i \in Nodes, u \in Authors : \E m \in Users \ {u} : AuthWarn(i, u, m)
    \/ \E u \in Authors, a \in Amounts, forbidden \in BOOLEAN :
           AuthCleanup("A", u, a, forbidden)
    \/ \E i \in Nodes, u \in Authors, m \in Authors : AuthDeop(i, u, m)
    \/ \E u \in Authors, m \in Authors : AuthReop("A", u, m)
    \/ \E u \in Authors : AuthDelcmd("A", u)
    \/ \E u \in Authors : AuthAddcmd("A", u)

SpecAuth == Init /\ [][NextAuth]_vars

----------------------------------------------------------------------------
(* SpecEnforce: ban, kick and timeout typed by the admin and by the       *)
(* moderator against every member, with a platform call that goes         *)
(* through or raises discord.Forbidden, before and after one loop period. *)

ChatKick(i, u, m, forbidden) ==
    Effort(i) < MaxChat
        /\ InvokeOn(i, "kick", ToString(m), kick(i, u, m, forbidden))

ChatTimeout(i, u, m, duration, forbidden) ==
    Effort(i) < MaxChat
        /\ InvokeOn(i, "timeout", ToString(m),
                    timeout(i, u, m, duration, forbidden))

NextEnforce ==
    \/ \E i \in Nodes, u \in Users, m \in Members, forbidden \in BOOLEAN :
           ChatBan(i, u, m, forbidden)
    \/ \E i \in Nodes, u \in Users, m \in Members, forbidden \in BOOLEAN :
           ChatKick(i, u, m, forbidden)
    \/ \E i \in Nodes, u \in Users, m \in Members, d \in Durations,
          forbidden \in BOOLEAN : ChatTimeout(i, u, m, d, forbidden)
    \/ now < Interval /\ Tick(Interval)

SpecEnforce == Init /\ [][NextEnforce]_vars

----------------------------------------------------------------------------
(* SpecHttp: the control plane.  The GET handlers answer on both          *)
(* instances while the PRIMARY's admin creates custom commands and each   *)
(* instance receives the other's custom commands at POST /sync.           *)

\* what a GET handler of node i answers (status 500: the handler raised
\* and aiohttp answered for it), together with the stores as it leaves them
Answer(i, ok) ==
    Local(i) @@ [status |-> IF ok THEN 200 ELSE 500,
                 role |-> IF ok THEN role[i] ELSE "-",
                 active |-> ok /\ is_active_instance[i]]

\* GET /commands that counts a use of every command it lists
get_custom_commands_counting(i) ==
    [Answer(i, TRUE) EXCEPT !.custom_commands =
        [k \in DOMAIN custom_commands[i] |->
            [custom_commands[i][k] EXCEPT !.usage_count = @ + 1]]]

\* HTTPServer.home: the uptime is now - stats["start_time"], a TypeError
\* unless start_time is a datetime
home(i) == Answer(i, stats[i].start_time.type = "datetime")

\* HTTPServer.ping_handler
ping_handler(i) == Answer(i, TRUE)

\* HTTPServer.get_stats: the stats dict itself goes to json_response,
\* which cannot serialise a datetime
get_stats(i) == Answer(i, \A k \in DOMAIN stats[i] : stats[i][k].type # "datetime")

\* HTTPServer.get_custom_commands
get_custom_commands(i) == Answer(i, TRUE)

\* a GET request on node i handled with result r
HttpGet(i, path, r) ==
    /\ moderation_actions' = [moderation_actions EXCEPT ![i] = r.moderation_actions]
    /\ warnings' = [warnings EXCEPT ![i] = r.warnings]
    /\ next_warning_id' = [next_warning_id EXCEPT ![i] = r.next_warning_id]
    /\ deopped_users' = [deopped_users EXCEPT ![i] = r.deopped_users]
    /\ stats' = [stats EXCEPT ![i] = r.stats]
    /\ custom_commands' = [custom_commands EXCEPT ![i] = r.custom_commands]
    /\ commands' = [commands EXCEPT ![i] = r.commands]
    /\ last' = Event(path, i, IF r.status = 200 THEN "200" ELSE "500",
                     r.active, FALSE)
    /\ UNCHANGED <<now, role, is_active_instance, peer_url, session,
                   last_peer_heartbeat, loop_running, pc, steps, presence,
                   peer_up, stale, normal>>

GetHome(i) == HttpGet(i, "GET /", home(i))
GetPing(i) == HttpGet(i, "GET /ping", ping_handler(i))
GetStats(i) == HttpGet(i, "GET /stats", get_stats(i))
GetCommands(i) == HttpGet(i, "GET /commands", get_custom_commands(i))

GetOps == {"GET /", "GET /ping", "GET /health", "GET /stats", "GET /commands"}

NextHttp ==
    \/ \E i \in Nodes : GetHome(i)
    \/ \E i \in Nodes : GetPing(i)
    \/ \E i \in Nodes : GetHealth(i)
    \/ \E i \in Nodes : GetStats(i)
    \/ \E i \in Nodes : GetCommands(i)
    \/ \E i \in Nodes, st \in SampleStats : PeerSync(i, st)
    \/ \E i \in Nodes, u \in Users, v \in Versions : addcmd(i, u, "rules", v)

SpecHttp == Init /\ [][NextHttp]_vars

----------------------------------------------------------------------------
(* SpecRole: the operations of the other specifications side by side, at  *)
(* one instant: the coordinator's calls, the health loop, a sync ingest   *)
(* and chat commands.                                                      *)

NextRole ==
    \/ \E i \in Nodes, ok \in BOOLEAN : CallBecomeActive(i, ok)
    \/ \E i \in Nodes, ok \in BOOLEAN : CallBecomeStandby(i, ok)
    \/ \E i \in Nodes : on_ready(i)
    \/ \E i \in Nodes, ok \in BOOLEAN : health_loop_takeover(i, ok)
    \/ \E i \in Nodes, delivered \in BOOLEAN : health_loop_sync(i, delivered)
    \/ \E i \in Nodes : \E resp \in PeerAnswers(i) : health_loop_check(i, resp)
    \/ \E i \in Nodes : PeerSync(i, NoStats)
    \/ \E i \in Nodes, u \in Users : addcmd(i, u, "rules", 1)
    \/ \E i \in Nodes : ChatPing(i)

SpecRole == Init /\ [][NextRole]_vars

----------------------------------------------------------------------------
(* SpecBot: the two bot programs of the repository side by side.  The     *)
(* stores of "A" belong to the ACTIVE PRIMARY of src/main.py, whose       *)
(* users type warn, deop and reop commands; the stores of "B" belong to a *)
(* process running the standalone bot of src/bot.py (class BanBot3000),   *)
(* which has no role, no peer and no process_commands gate, and whose     *)
(* admin can clear its memory.                                            *)

Standalone == "B"

BotLogCeiling == 10000   \* bot.py log_action: len(...) > 10000
BotLogRetained == 5000   \* bot.py log_action: self.moderation_actions[-5000:]

\* BanBot3000.__init__: self.stats
BanBot3000_stats(t) ==
    [bans |-> IntVal(0), kicks |-> IntVal(0), timeouts |-> IntVal(0),
     warnings |-> IntVal(0), deops |-> IntVal(0), commands_used |-> IntVal(0),
     uptime_start |-> DateTimeVal(t)]

InitBot ==
    /\ now = 0
    /\ role = [i \in Nodes |-> determine_role(i).role]
    /\ is_active_instance =
           [i \in Nodes |-> initial_is_active_instance(determine_role(i).role)]
    /\ peer_url = [i \in Nodes |-> determine_role(i).peer_url]
    /\ session = [i \in Nodes |-> FALSE]
    /\ last_peer_heartbeat = [i \in Nodes |-> 0]
    /\ loop_running = [i \in Nodes |-> FALSE]
    /\ pc = [k \in Nodes \cup {SyncHandler(i) : i \in Nodes} |-> "idle"]
    /\ steps = [i \in Nodes |-> <<>>]
    /\ presence = [i \in Nodes |-> 0]
    /\ custom_commands = [i \in Nodes |-> <<>>]
    /\ commands = [i \in Nodes |-> <<>>]
    /\ stats = [i \in Nodes |-> IF i = Standalone THEN BanBot3000_stats(0)
                                 ELSE InitStats(0)]
    /\ moderation_actions = [i \in Nodes |-> <<>>]
    /\ warnings = [i \in Nodes |-> <<>>]
    /\ deopped_users = [i \in Nodes |-> <<>>]
    /\ next_warning_id = [i \in Nodes |-> 1]
    /\ peer_up = TRUE
    /\ last = Event("init", "-", "-", FALSE, FALSE)
    /\ stale = [i \in Nodes |-> FALSE]
    /\ normal = TRUE

\* BanBot3000.has_permission_for_action: "warn" needs manage_messages,
\* kick_members or ban_members
BanBot3000_has_permission_for_action(u, action) ==
    \/ is_admin(u)
    \/ action = "warn" /\ GuildPermissions(u) # {}
    \/ action # "warn" /\ action \in GuildPermissions(u)

\* BanBot3000.is_authorized
BanBot3000_is_authorized(i, u, action) ==
    /\ ~is_deopped(i, u)
    /\ BanBot3000_has_permission_for_action(u, action)

\* BanBot3000.log_action: the counter moves only if its key is in stats,
\* and a log longer than 10000 is cut to its last 5000
BanBot3000_log_action(log, st, action) ==
    LET key == CounterOf(action.action)
        log1 == Append(log, [action EXCEPT !.timestamp = now])
    IN  [moderation_actions |-> IF Len(log1) > BotLogCeiling
                                THEN LastN(log1, BotLogRetained) ELSE log1,
         stats |-> IF key \in DOMAIN st THEN Inc(st, key) ELSE st]

\* BanBot3000.add_warning
BanBot3000_add_warning(ws, id, st, user_id, moderator_id) ==
    [warnings |-> Append(ws, [id |-> id, user_id |-> user_id,
                              moderator_id |-> moderator_id, timestamp |-> now]),
     next_warning_id |-> id + 1,
     stats |-> Inc(st, "warnings")]

\* the warn command of bot.py: the warning is added, then logged as a
\* moderation action
BanBot3000_warn(i, u, m) ==
    IF ~BanBot3000_is_authorized(i, u, "warn")
    THEN [Local(i) EXCEPT !.reply = "no permission"]
    ELSE LET w == BanBot3000_add_warning(warnings[i], next_warning_id[i],
                                         stats[i], m, u)
             l == BanBot3000_log_action(moderation_actions[i], w.stats,
                                        [user_id |-> m, moderator_id |-> u,
                                         action |-> "warn", timestamp |-> now])
         IN  [Local(i) EXCEPT !.warnings = w.warnings,
                              !.next_warning_id = w.next_warning_id,
                              !.moderation_actions = l.moderation_actions,
                              !.stats = l.stats,
                              !.reply = "User Warned"]

\* a clear_memory that empties the stores and keeps the id counter
clear_memory_keeps_counter(i, u) ==
    IF ~is_admin(u)
    THEN [Local(i) EXCEPT !.reply = "Only admins can clear memory"]
    ELSE [Local(i) EXCEPT !.moderation_actions = <<>>, !.warnings = <<>>,
                          !.deopped_users = <<>>,
                          !.reply = "Memory Cleared"]

\* the ban command of bot.py; forbidden: member.ban raises discord.Forbidden
\* (the bot itself holds the ban_members permission in the guild)
BanBot3000_ban(i, u, m, forbidden) ==
    IF ~BanBot3000_is_authorized(i, u, "ban")
    THEN [Local(i) EXCEPT !.reply = "no permission"]
    ELSE LET l == BanBot3000_log_action(moderation_actions[i], stats[i],
                                        [user_id |-> m, moderator_id |-> u,
                                         action |-> "ban", timestamp |-> now])
         IN  [Local(i) EXCEPT !.moderation_actions = l.moderation_actions,
                              !.stats = l.stats,
                              !.reply = IF forbidden THEN "cannot ban this user"
                                        ELSE "User Banned"]

\* the clear_memory command of bot.py: the stores are emptied, the id
\* counter goes back to 1 and the counters to 0, uptime_start is kept
clear_memory(i, u) ==
    IF ~is_admin(u)
    THEN [Local(i) EXCEPT !.reply = "Only admins can clear memory"]
    ELSE [Local(i) EXCEPT
             !.moderation_actions = <<>>,
             !.warnings = <<>>,
             !.deopped_users = <<>>,
             !.next_warning_id = 1,
             !.stats = BanBot3000_stats(stats[i].uptime_start.v),
             !.reply = "Memory Cleared"]

\* a chat message with command op reaches the standalone bot, whose
\* on_message hands every message to the command with result r
BotInvoke(i, op, r) ==
    /\ moderation_actions' = [moderation_actions EXCEPT ![i] = r.moderation_actions]
    /\ warnings' = [warnings EXCEPT ![i] = r.warnings]
    /\ next_warning_id' = [next_warning_id EXCEPT ![i] = r.next_warning_id]
    /\ deopped_users' = [deopped_users EXCEPT ![i] = r.deopped_users]
    /\ stats' = [stats EXCEPT ![i] = r.stats]
    /\ last' = Event(op, i, r.reply, FALSE, FALSE)
    /\ UNCHANGED <<now, role, is_active_instance, peer_url, session,
                   last_peer_heartbeat, loop_running, pc, steps, presence,
                   custom_commands, commands, peer_up, stale, normal>>

BotWarn(u, m) ==
    /\ Len(warnings[Standalone]) < MaxChat
    /\ BotInvoke(Standalone, "warn", BanBot3000_warn(Standalone, u, m))

BotClearMemory(u) ==
    BotInvoke(Standalone, "clear_memory", clear_memory(Standalone, u))

NextBot ==
    \/ \E u \in Users, m \in Users : ChatWarn("A", u, m)
    \/ \E u \in Users, m \in Members : ChatDeop("A", u, m)
    \/ \E u \in Users, m \in Members : ChatReop("A", u, m)
    \/ \E u \in Members, m \in Users : BotWarn(u, m)
    \/ \E u \in Users : BotClearMemory(u)

SpecBot == InitBot /\ [][NextBot]_vars

----------------------------------------------------------------------------
(* SpecLog: a long moderation session on the ACTIVE PRIMARY of main.py    *)
(* and on the standalone bot of bot.py.  Every second the admin bans one  *)
(* member on the first and then one on the second, so that every entry of *)
(* a log carries its own timestamp, until the clock reaches MaxLogTime:   *)
(* each log passes its ceiling and is cut.                                *)

MaxLogTime == 10005    \* seconds of the session

Second ==
    /\ last.op \notin {"second", "ban"} \/ last.node = Standalone
    /\ now < MaxLogTime
    /\ now' = now + 1
    /\ last' = Event("second", "-", "-", FALSE, FALSE)
    /\ UNCHANGED <<role, is_active_instance, peer_url, session,
                   last_peer_heartbeat, loop_running, pc, steps, presence,
                   custom_commands, commands, stats, moderation_actions,
                   warnings, deopped_users, next_warning_id, peer_up, stale,
                   normal>>

SessionBan(i, u, m) ==
    /\ last.op = "second"
    /\ Invoke(i, "ban", ban(i, u, m, FALSE))

BotSessionBan(u, m) ==
    /\ last.op = "ban" /\ last.node # Standalone
    /\ BotInvoke(Standalone, "ban", BanBot3000_ban(Standalone, u, m, FALSE))

NextLog ==
    \/ Second
    \/ SessionBan("A", 1, 2)
    \/ BotSessionBan(1, 2)

SpecLog == InitBot /\ [][NextLog]_vars

----------------------------------------------------------------------------
(* SpecPush: the health cycles of an instance whose outbound push can be  *)
(* sent.  A sync accepted by the STANDBY instance replaces the datetime   *)
(* stats["start_time"] by the text of the body, after which the snapshot  *)
(* of that instance is JSON-serialisable and its sync_data posts it.  The *)
(* PRIMARY's admin adds a custom command, the SECONDARY may be promoted,  *)
(* and the PRIMARY may stop answering.                                    *)

NextPush ==
    \/ \E i \in Nodes : on_ready(i)
    \/ \E i \in Nodes, ok \in BOOLEAN : health_loop_takeover(i, ok)
    \/ \E i \in Nodes, delivered \in BOOLEAN : health_loop_sync(i, delivered)
    \/ \E i \in Nodes : \E resp \in PeerAnswers(i) : health_loop_check(i, resp)
    \/ \E st \in SampleStats : PeerSync("B", st)
    \/ addcmd("A", 1, "rules", 1)
    \/ \E ok \in BOOLEAN : CallBecomeActive("B", ok)
    \/ PeerDown
    \/ PeerBack

SpecPush == Init /\ [][NextPush]_vars

----------------------------------------------------------------------------
(* SpecRace: Spec with the POST /sync handler as the event loop runs it.  *)
(* The handler tests the activity flag, then suspends at                  *)
(* await request.json(); while it is suspended the health loop of the     *)
(* same instance may run.  Once the body has arrived the rest of the      *)
(* handler has no await and runs in one piece.                            *)

\* the body the peer's admin would send: one custom command, one counter
RacePayloads ==
    { [parses |-> TRUE, custom_commands |-> <<<<"rules", CmdData("rules", 1)>>>>,
       stats_ok |-> TRUE, stats |-> [bans |-> IntVal(7)]] }

\* the handler up to its first await
sync_data_enter(i) ==
    /\ pc[SyncHandler(i)] = "idle"
    /\ IF is_active_instance[i]
       THEN /\ last' = Event("POST /sync", i, "active_skip", FALSE, FALSE)
            /\ UNCHANGED pc
       ELSE /\ last' = Event("POST /sync", i, "awaiting", FALSE, FALSE)
            /\ pc' = [pc EXCEPT ![SyncHandler(i)] = "request.json"]
    /\ UNCHANGED <<now, role, is_active_instance, peer_url, session,
                   last_peer_heartbeat, loop_running, steps, presence,
                   stores, peer_up, stale, normal>>

\* the handler from the return of request.json() to its response
sync_data_resume(i, p) ==
    /\ pc[SyncHandler(i)] = "request.json"
    /\ LET h == HTTPServer_sync_data_merge(i, p)
       IN  /\ custom_commands' = [custom_commands EXCEPT ![i] = h.custom_commands]
           /\ commands' = [commands EXCEPT ![i] = h.commands]
           /\ stats' = [stats EXCEPT ![i] = h.stats]
           /\ last' = [Event("POST /sync", i, h.status, h.dup, FALSE)
                          EXCEPT !.caught = h.raised]
    /\ pc' = [pc EXCEPT ![SyncHandler(i)] = "idle"]
    /\ UNCHANGED <<now, role, is_active_instance, peer_url, session,
                   last_peer_heartbeat, loop_running, steps, presence,
                   moderation_actions, warnings, deopped_users,
                   next_warning_id, peer_up, stale, normal>>

NextRace ==
    \/ \E d \in Delays : Tick(d)
    \/ \E i \in Nodes : on_ready(i)
    \/ \E i \in Nodes, ok \in BOOLEAN : health_loop_takeover(i, ok)
    \/ \E i \in Nodes, delivered \in BOOLEAN : health_loop_sync(i, delivered)
    \/ \E i \in Nodes : \E resp \in PeerAnswers(i) : health_loop_check(i, resp)
    \/ \E i \in Nodes : sync_data_enter(i)
    \/ \E i \in Nodes, p \in RacePayloads : sync_data_resume(i, p)
    \/ PeerDown
    \/ PeerBack

SpecRace == Init /\ [][NextRace]_vars

----------------------------------------------------------------------------
(* SpecTopo: the deployed pair.  Spec, with the PRIMARY's admin adding a  *)
(* custom command and with POST /sync requests arriving at the PRIMARY,   *)
(* the only instance whose URL the other one knows.                       *)

NextTopo ==
    \/ Next
    \/ addcmd("A", 1, "rules", 1)
    \/ \E p \in RacePayloads : PostSync("A", p)

SpecTopo == Init /\ [][NextTopo]_vars

----------------------------------------------------------------------------
(* SpecFailover: moderation on the PRIMARY, a sync of its snapshot to the *)
(* STANDBY SECONDARY, the promotion of the SECONDARY, and moderation      *)
(* there.                                                                  *)

NextFailover ==
    \/ \E u \in Users, m \in Members : ChatBan("A", u, m, FALSE)
    \/ \E u \in Users, m \in Users : ChatWarn("A", u, m)
    \/ \E m \in Users : ChatDeop("A", 1, m)
    \/ addcmd("A", 1, "rules", 1)
    \/ PeerSync("B", NoStats)
    \/ \E ok \in BOOLEAN : CallBecomeActive("B", ok)
    \/ \E u \in Users, m \in Members : ChatBan("B", u, m, FALSE)

SpecFailover == Init /\ [][NextFailover]_vars

----------------------------------------------------------------------------
(* SpecClock: Spec on two hosts whose clocks differ.  `now` is the clock  *)
(* of the SECONDARY's host; the clock of the PRIMARY's host, which stamps *)
(* the heartbeat of GET /health, is ClockSkew seconds behind it.          *)

ClockSkew == 2         \* seconds the PRIMARY's clock is behind

\* the peer's answer, its heartbeat read on the peer's clock
skewed(resp) ==
    IF resp.last_heartbeat.ok
    THEN [resp EXCEPT !.last_heartbeat = isoformat(@.t - ClockSkew)]
    ELSE resp

NextClock ==
    \/ \E d \in Delays : Tick(d)
    \/ \E i \in Nodes : on_ready(i)
    \/ \E i \in Nodes, ok \in BOOLEAN : health_loop_takeover(i, ok)
    \/ \E i \in Nodes, delivered \in BOOLEAN : health_loop_sync(i, delivered)
    \/ \E i \in Nodes : \E resp \in PeerAnswers(i) :
           health_loop_check(i, skewed(resp))
    \/ PeerDown
    \/ PeerBack

SpecClock == Init /\ [][NextClock]_vars

----------------------------------------------------------------------------
(* SpecSnap: the snapshots of a promoted SECONDARY.  The PRIMARY does not *)
(* answer; the SECONDARY is promoted and its admin bans and warns one     *)
(* member every second (every entry carries its own timestamp), deops     *)
(* a member and adds a custom command, while the health loop of the       *)
(* SECONDARY keeps building snapshots of the growing stores.  The         *)
(* promotion, the deop and the addcmd happen before the first second.     *)

MaxSnapTime == 103     \* seconds of the session

\* the entries of store s all date from before now
Behind(s) == IF Len(s) = 0 THEN TRUE ELSE s[Len(s)].timestamp < now

SnapSecond ==
    /\ is_active_instance["B"] /\ loop_running["B"]
    /\ now < MaxSnapTime
    /\ now > 0 => ~Behind(moderation_actions["B"]) /\ ~Behind(warnings["B"])
    /\ now' = now + 1
    /\ last' = Event("second", "-", "-", FALSE, FALSE)
    /\ UNCHANGED <<role, is_active_instance, peer_url, session,
                   last_peer_heartbeat, loop_running, pc, steps, presence,
                   stores, peer_up, stale, normal>>

SnapBan ==
    /\ is_active_instance["B"] /\ now > 0
    /\ Behind(moderation_actions["B"])
    /\ Invoke("B", "ban", ban("B", 1, 2, FALSE))

SnapWarn ==
    /\ is_active_instance["B"] /\ now > 0
    /\ ~Behind(moderation_actions["B"]) /\ Behind(warnings["B"])
    /\ InvokeOn("B", "warn", "2", warn("B", 1, 2))

SnapDeop ==
    /\ is_active_instance["B"] /\ now = 0 /\ deopped_users["B"] = <<>>
    /\ InvokeOn("B", "deop", "3", deop("B", 1, 3))

SnapAddcmd ==
    /\ is_active_instance["B"] /\ now = 0 /\ custom_commands["B"] = <<>>
    /\ addcmd("B", 1, "rules", 1)

NextSnap ==
    \/ ~is_active_instance["B"] /\ CallBecomeActive("B", TRUE)
    \/ on_ready("B")
    \/ \E ok \in BOOLEAN : health_loop_takeover("B", ok)
    \/ health_loop_sync("B", FALSE)
    \/ \E resp \in NoAnswer : health_loop_check("B", resp)
    \/ SnapSecond
    \/ SnapBan
    \/ SnapWarn
    \/ SnapDeop
    \/ SnapAddcmd

SpecSnap == Init /\ [][NextSnap]_vars

----------------------------------------------------------------------------
(* SpecLive: Spec with the scheduling of the SECONDARY's health loop.      *)
(* tasks.loop starts an iteration every 30 seconds for as long as the loop *)
(* runs, and every await of an iteration returns (the session has a total  *)
(* timeout of 5 seconds), so time passes and each statement of the loop    *)
(* of B is eventually executed.                                            *)

Fairness ==
    /\ WF_vars(\E d \in Delays : Tick(d))
    /\ WF_vars(\E ok \in BOOLEAN : health_loop_takeover("B", ok))
    /\ WF_vars(\E delivered \in BOOLEAN : health_loop_sync("B", delivered))
    /\ WF_vars(\E resp \in PeerAnswers("B") : health_loop_check("B", resp))

SpecLive == Spec /\ Fairness

----------------------------------------------------------------------------
(* Properties *)

\* C1: should_takeover() is true exactly when the role is SECONDARY, the
\* activity is STANDBY and the last peer heartbeat is more than 60 seconds
\* old; in particular it is false on a SECONDARY that is already ACTIVE.
C1_TakeoverIffStandbySecondaryStale ==
    \A i \in Nodes :
        should_takeover(i) <=> ( /\ role[i] = SECONDARY
                                 /\ ~is_active_instance[i]
                                 /\ now - last_peer_heartbeat[i] > Grace )

\* C2: on a PRIMARY should_takeover() is false whatever the age of the
\* heartbeat, and no health cycle of a PRIMARY calls become_active.
C2_PrimaryNeverTakesOver ==
    \A i \in Nodes :
        role[i] = PRIMARY =>
            /\ ~should_takeover(i)
            /\ "become_active" \notin Range(steps[i])

\* a PRIMARY has finished a health cycle with a heartbeat older than the grace
C2_Witness ==
    \E i \in Nodes :
        /\ role[i] = PRIMARY
        /\ now - last_peer_heartbeat[i] > Grace
        /\ pc[i] = "idle"
        /\ steps[i] = <<"takeover", "sync_data", "check_peer_health">>

\* C3: a POST /sync that finds the instance ACTIVE answers "active_skip"
\* and leaves every store as it was, whatever the body.
C3_ActiveSkipsIngest ==
    [][ \A i \in Nodes :
            (last'.op = "POST /sync" /\ last'.node = i /\ is_active_instance[i])
            => (last'.status = "active_skip" /\ UNCHANGED stores) ]_vars

\* an ACTIVE node that holds a custom command has answered a POST /sync
C3_Witness ==
    /\ last.op = "POST /sync"
    /\ last.status = "active_skip"
    /\ is_active_instance[last.node]
    /\ "rules" \in DOMAIN custom_commands[last.node]

\* C4: on a STANDBY instance, whatever body the next POST /sync carries,
\* every definition already in the registry stays as it is, and when the
\* request succeeds every entry whose key was absent is stored with the
\* fields of the body (usage counter 0 when the body gives none).
C4_FirstWriterWins ==
    \A i \in Nodes, p \in Payloads :
        ~is_active_instance[i] =>
            LET h == HTTPServer_sync_data(i, p)
                cc == custom_commands[i]
            IN  /\ \A k \in DOMAIN cc :
                       k \in DOMAIN h.custom_commands /\ h.custom_commands[k] = cc[k]
                /\ h.status = "success" =>
                       \A n \in DOMAIN p.custom_commands :
                           LET k == p.custom_commands[n][1]
                               d == p.custom_commands[n][2]
                           IN  k \notin DOMAIN cc =>
                                   /\ k \in DOMAIN h.custom_commands
                                   /\ h.custom_commands[k] =
                                          [name |-> d.name,
                                           description |-> d.description,
                                           response |-> d.response,
                                           created_by |-> d.created_by,
                                           created_at |-> d.created_at.t,
                                           usage_count |->
                                               IF "usage_count" \in DOMAIN d
                                               THEN d.usage_count ELSE 0]

\* a STANDBY node holds the first definition of "rules" after a later
\* POST /sync that carried the key again was accepted
C4_Witness ==
    /\ last.op = "POST /sync"
    /\ last.status = "success"
    /\ last.flag
    /\ ~is_active_instance[last.node]
    /\ "rules" \in DOMAIN custom_commands[last.node]
    /\ custom_commands[last.node]["rules"].description = "first"
    /\ custom_commands[last.node]["rules"].usage_count = 0

\* C5: a POST /sync on a STANDBY instance whose body is not JSON, or has
\* an entry without a required field or with a created_at that does not
\* parse, answers "error" and leaves custom_commands, the live command
\* table and stats as they were.
C5_MalformedLeavesStores ==
    [][ \A i \in Nodes :
            (last'.op = "POST /sync" /\ last'.node = i /\ ~is_active_instance[i]
                /\ last'.caught \in {"JSONDecodeError", "KeyError", "ValueError"})
            => (last'.status = "error"
                /\ UNCHANGED <<custom_commands, commands, stats>>) ]_vars

\* C6: after a call of become_active / become_standby the flag is the one
\* the call asked for, and the call sent a presence update only if it
\* changed the flag.
C6_LastCallWins ==
    [][ \A i \in Nodes :
            (last'.op \in {"become_active", "become_standby"} /\ last'.node = i)
            => /\ is_active_instance'[i] = (last'.op = "become_active")
               /\ presence'[i] # presence[i]
                      => is_active_instance'[i] # is_active_instance[i] ]_vars

\* a node went ACTIVE -> STANDBY -> ACTIVE -> STANDBY by calls that each
\* sent an update, or fewer updates were sent than calls made
C6_Witness ==
    /\ last.op = "become_standby"
    /\ last.node = "B"
    /\ ~is_active_instance["B"]
    /\ presence["B"] = 2
    /\ presence["A"] = 0

\* C7: a cycle that starts on a STANDBY SECONDARY whose heartbeat is more
\* than 60 seconds old leaves the instance ACTIVE, and every health report
\* GET /health gives after that cycle says is_active = true.
C7_StaleCyclePromotes ==
    \A i \in Nodes :
        (stale[i] /\ pc[i] = "idle") =>
            /\ is_active_instance[i]
            /\ (last.op = "GET /health" /\ last.node = i /\ last.status = "200")
                   => last.flag

\* the heartbeat was 61 seconds old when the cycle of B started, the cycle
\* is over and GET /health has reported since
C7_Witness ==
    /\ stale["B"] /\ pc["B"] = "idle"
    /\ now = Grace + 1
    /\ last_peer_heartbeat["B"] = 0
    /\ last.op = "GET /health" /\ last.node = "B" /\ last.status = "200"

\* C8: the calls of a health cycle come in the order check_peer_health,
\* takeover decision (and promotion), sync_data.
C8_CheckBeforeTakeoverBeforeSync ==
    \A i \in Nodes :
        LET made == SelectSeq(steps[i], LAMBDA x : x # "become_active")
            order == <<"check_peer_health", "takeover", "sync_data">>
        IN  \A k \in DOMAIN made : made[k] = order[k]

\* C9: while A has always been up and every health check has succeeded,
\* the PRIMARY is ACTIVE and the SECONDARY is STANDBY.
C9_OneActiveInNormalOperation ==
    normal => \A i \in Nodes : is_active_instance[i] <=> role[i] = PRIMARY

\* C10: check_peer_health never raises, and last_peer_heartbeat changes
\* only in a check that got status 200 with a body whose last_heartbeat
\* parses.
C10_HeartbeatOnlyOnSuccess ==
    [][ \A i \in Nodes :
            /\ (last'.op = "check_peer_health" /\ last'.node = i)
                   => /\ ~last'.raised
                      /\ last'.status # "ok"
                             => last_peer_heartbeat'[i] = last_peer_heartbeat[i]
            /\ last_peer_heartbeat'[i] # last_peer_heartbeat[i]
                   => (last'.op = "check_peer_health" /\ last'.node = i
                          /\ last'.status = "ok") ]_vars

\* a check that got a body with an unparsable last_heartbeat has kept the
\* heartbeat an earlier check had recorded
C10_Witness ==
    /\ last.op = "check_peer_health"
    /\ last.node = "B"
    /\ last.status = "bad_heartbeat"
    /\ last_peer_heartbeat["B"] = Interval
    /\ now > Interval


\* no health check of B succeeds
ChecksOfBFail ==
    ~(last.op = "check_peer_health" /\ last.node = "B" /\ last.status = "ok")

\* C11: if from some point on every health check of the SECONDARY fails
\* and its loop runs (and the clock has room for the grace period after
\* the last recorded heartbeat), the SECONDARY eventually becomes ACTIVE;
\* the cycle that promotes it is the first one that starts more than 60
\* seconds after the last recorded heartbeat: such a cycle always
\* promotes, and no step promotes earlier.
C11_OutageLeadsToTakeover ==
    /\ [][ (last'.op = "takeover" /\ last'.node = "B"
               /\ now - last_peer_heartbeat["B"] > Grace)
           => is_active_instance'["B"] ]_vars
    /\ [][ (~is_active_instance["B"] /\ is_active_instance'["B"])
           => (last'.op = "takeover" /\ last'.node = "B"
                  /\ now - last_peer_heartbeat["B"] > Grace) ]_vars
    /\ (<>[](/\ ChecksOfBFail
             /\ loop_running["B"]
             /\ last_peer_heartbeat["B"] + Grace + Interval <= MaxTime))
           => <>is_active_instance["B"]

\* A went down after B had recorded a heartbeat one period after its
\* start, and a cycle of B has just promoted it
C11_Witness ==
    /\ ~peer_up
    /\ last_peer_heartbeat["B"] = Interval
    /\ now - last_peer_heartbeat["B"] > Grace
    /\ last.op = "takeover" /\ last.node = "B" /\ last.flag
    /\ is_active_instance["B"]
    /\ presence["B"] = 2

\* a statement of B's health cycle has just failed: the promotion raised,
\* the sync push was not built, not delivered or refused, or the health
\* check did not get a health report
CycleOfBFailed ==
    /\ last.node = "B"
    /\ \/ last.op = "takeover" /\ last.raised
       \/ last.op = "sync_data" /\ last.status \in {"raised", "lost", "error"}
       \/ last.op = "check_peer_health" /\ last.status \notin {"ok", "no_peer"}

\* C12: a failure inside a health cycle never stops the loop: a running
\* loop keeps running, and after a failed statement of a cycle the next
\* cycle begins (its takeover decision is evaluated and does not raise).
C12_LoopSurvivesFailure ==
    /\ [][ \A i \in Nodes : loop_running[i] => loop_running'[i] ]_vars
    /\ (CycleOfBFailed ~>
           (last.op = "takeover" /\ last.node = "B" /\ ~last.raised))

\* the promotion of B raised in change_presence and the loop of B is
\* still running, at the start of its next cycle
C12_Witness ==
    /\ last.op = "takeover" /\ last.node = "B" /\ last.raised
    /\ is_active_instance["B"]
    /\ loop_running["B"]
    /\ pc["B"] = "idle"

\* C13: a health cycle of an instance with a peer configured, a session
\* and a reachable peer ends its sync_data with a POST /sync that the
\* peer's handler answered (the request was built and sent; at worst it
\* was lost on the way).
C13_SyncPushReachesPeer ==
    [][ \A i \in Nodes :
            (last'.op = "sync_data" /\ last'.node = i
                /\ peer_url[i] # None /\ session[i] /\ peer_up)
            => last'.status \in {"success", "active_skip", "error", "lost"} ]_vars

\* the entries of node i's registry whose command is named n
EntriesNamed(i, n) ==
    {k \in DOMAIN custom_commands[i] : custom_commands[i][k].name = n}

\* C14: with custom commands created by addcmd on both instances and
\* synced in either direction any number of times, a registry never
\* holds two entries for one name, and an entry a registry holds is never
\* replaced: the definition an instance created locally stays as it was
\* created.
C14_LocalDefinitionSurvives ==
    /\ [](\A i \in Nodes : \A n \in TypedNames :
             Cardinality(EntriesNamed(i, lower(n))) <= 1)
    /\ [][ \A i \in Nodes : \A k \in DOMAIN custom_commands[i] :
               /\ k \in DOMAIN custom_commands'[i]
               /\ custom_commands'[i][k] = custom_commands[i][k] ]_vars

\* both instances created "rules" themselves, with different texts, and a
\* sync carrying A's definition has just been answered by B
C14_Witness ==
    /\ "rules" \in DOMAIN custom_commands["A"]
    /\ "rules" \in DOMAIN custom_commands["B"]
    /\ custom_commands["A"]["rules"].description = "first"
    /\ custom_commands["B"]["rules"].description = "second"
    /\ last.op = "POST /sync" /\ last.node = "B"

\* C15: a POST /sync that a STANDBY instance answers with "success" sets
\* every counter the payload's stats carries to the payload's value (not
\* to the sum with the local one) and leaves the other counters as they
\* were.
C15_StatsOverride ==
    [][ \A i \in Nodes :
            (last'.op = "POST /sync" /\ last'.node = i
                /\ last'.status = "success" /\ ~is_active_instance[i])
            => \E st \in SampleStats :
                   /\ st.stats_ok
                   /\ DOMAIN stats'[i] = DOMAIN stats[i] \cup DOMAIN st.stats
                   /\ \A k \in DOMAIN stats'[i] :
                          stats'[i][k] = IF k \in DOMAIN st.stats
                                         THEN st.stats[k] ELSE stats[i][k] ]_vars

\* B held bans = 5 and a text start_time from one sync; a later sync that
\* carried bans = 7 alone has left bans = 7 and the start_time in place
C15_Witness ==
    /\ last.op = "POST /sync" /\ last.node = "B" /\ last.status = "success"
    /\ stats["B"].bans = IntVal(7)
    /\ stats["B"].start_time = StrVal(0)
    /\ stats["B"].kicks = IntVal(0)

\* payload p without the entries whose key node i's registry holds
WithoutLocal(i, p) ==
    [p EXCEPT !.custom_commands =
        SelectSeq(@, LAMBDA e : e[1] \notin DOMAIN custom_commands[i])]

\* an entry the ingest of node i can store and register
Acceptable(i, e) ==
    /\ RequiredFields \subseteq DOMAIN e[2]
    /\ e[2].created_at.ok
    /\ e[2].name \notin registered(commands[i])

\* C16: on a STANDBY instance an entry whose key the registry already
\* holds is skipped and nothing else: the answer and the stores are those
\* of the same payload without that entry, so when the rest of the
\* payload is acceptable the answer is "success" and every entry with a
\* key absent locally is in the registry.
C16_DuplicateSkippedOnly ==
    \A i \in Nodes, p \in Payloads :
        ( /\ ~is_active_instance[i]
          /\ p.parses
          /\ \E n \in DOMAIN p.custom_commands :
                 p.custom_commands[n][1] \in DOMAIN custom_commands[i] )
        => LET h == HTTPServer_sync_data(i, p)
               g == HTTPServer_sync_data(i, WithoutLocal(i, p))
               rest == WithoutLocal(i, p).custom_commands
           IN  /\ h.status = g.status
               /\ h.custom_commands = g.custom_commands
               /\ h.commands = g.commands
               /\ h.stats = g.stats
               /\ (p.stats_ok /\ \A n \in DOMAIN rest : Acceptable(i, rest[n]))
                      => /\ h.status = "success"
                         /\ \A n \in DOMAIN rest :
                                rest[n][1] \in DOMAIN h.custom_commands

\* B has answered "success" to a sync in which an entry was skipped, and
\* holds "rules" in its first definition together with "faq"
C16_Witness ==
    /\ last.op = "POST /sync" /\ last.node = "B"
    /\ last.status = "success" /\ last.flag
    /\ DOMAIN custom_commands["B"] = {"rules", "faq"}
    /\ custom_commands["B"]["rules"].description = "first"
    /\ DOMAIN commands["B"] = {"rules", "faq"}

\* C17: a chat command that reaches a STANDBY instance, whatever the
\* command and its author, sends no response and leaves every store and
\* counter of the instance as it was.
C17_StandbyDropsCommands ==
    [][ \A i \in Nodes :
            (last'.op \in ChatOps /\ last'.node = i /\ ~is_active_instance[i])
            => /\ last'.status \in {"dropped", "silent"}
               /\ UNCHANGED stores ]_vars

\* the STANDBY instance holds the custom command "rules" (from a sync)
\* and has just been sent that command
C17_Witness ==
    /\ ~is_active_instance["B"]
    /\ "rules" \in DOMAIN commands["B"]
    /\ last.op = "custom" /\ last.node = "B"
    /\ custom_commands["B"]["rules"].usage_count = 0
    /\ Len(moderation_actions["A"]) = 1

\* C18: GET /, GET /ping and GET /health always answer with a success
\* response that echoes the role and the activity flag of the instance,
\* whatever syncs it has accepted.
C18_ControlPlaneAlwaysAnswers ==
    /\ [][ last'.op \in {"GET /", "GET /ping", "GET /health"}
           => /\ last'.status = "200"
              /\ last'.flag = is_active_instance[last'.node] ]_vars
    /\ [](\A i \in Nodes :
             /\ home(i).status = 200 => home(i).role = role[i]
             /\ ping_handler(i).status = 200 => ping_handler(i).role = role[i]
             /\ health_check(i).status = 200 => health_check(i).role = role[i])

\* C19: the GET endpoints leave the role, the activity flag, the last
\* peer heartbeat and every store as they were; of the control-plane
\* requests only POST /sync changes state.
C19_ReadsChangeNothing ==
    [][ last'.op \in GetOps
           => UNCHANGED <<role, is_active_instance, last_peer_heartbeat, stores>>
    ]_vars

\* GET /commands has listed the custom command B holds from a sync, and
\* the command's usage counter is still 0
C19_Witness ==
    /\ last.op = "GET /commands" /\ last.node = "B" /\ last.status = "200"
    /\ "rules" \in DOMAIN custom_commands["B"]
    /\ custom_commands["B"]["rules"].usage_count = 0
    /\ stats["B"].bans = IntVal(5)

\* C20: the role of an instance is the one its deployment gave it at
\* construction (PRIMARY for A, SECONDARY for B) and no operation
\* changes it.
C20_RoleIsFixed ==
    /\ [](role = [i \in Nodes |-> IF i = "A" THEN PRIMARY ELSE SECONDARY])
    /\ [][role' = role]_vars

\* B has been promoted, demoted again and has run a health cycle; A
\* holds a custom command
C20_Witness ==
    /\ presence["B"] >= 3
    /\ ~is_active_instance["B"]
    /\ steps["B"] = <<"takeover", "sync_data", "check_peer_health">>
    /\ "rules" \in DOMAIN custom_commands["A"]
    /\ role["B"] = SECONDARY

\* C21: a freshly constructed instance is ACTIVE exactly when its role is
\* PRIMARY: the SECONDARY starts STANDBY, the PRIMARY starts ACTIVE.
C21_InitialActivityFollowsRole ==
    last.op = "init" =>
        /\ \A i \in Nodes : is_active_instance[i] <=> (role[i] = PRIMARY)
        /\ \E i \in Nodes : role[i] = SECONDARY /\ ~is_active_instance[i]

\* C21 witness: the state after construction, the PRIMARY ACTIVE and the
\* SECONDARY STANDBY
C21_Witness ==
    /\ last.op = "init"
    /\ role["A"] = PRIMARY /\ is_active_instance["A"]
    /\ role["B"] = SECONDARY /\ ~is_active_instance["B"]

\* C22: warning ids start at 1 on a fresh store and are strictly
\* increasing: the k-th warning of a store carries id k and the next id to
\* issue is above every id issued, so no id is reused while the store
\* lives; a clear_memory empties the store and the next id is 1 again.
C22_WarningIdsIncreaseFromOne ==
    [][\A i \in Nodes :
          /\ \A k \in DOMAIN warnings[i] : warnings[i][k].id = k
          /\ next_warning_id[i] = Len(warnings[i]) + 1
          /\ (last'.op = "warn" /\ last'.node = i /\ last'.status = "User Warned")
                 => /\ Len(warnings'[i]) = Len(warnings[i]) + 1
                    /\ warnings'[i][Len(warnings'[i])].id = next_warning_id[i]
                    /\ next_warning_id'[i] = next_warning_id[i] + 1
                    /\ SubSeq(warnings'[i], 1, Len(warnings[i])) = warnings[i]
          /\ (last'.op = "clear_memory" /\ last'.node = i
                 /\ last'.status = "Memory Cleared")
                 => warnings'[i] = <<>> /\ next_warning_id'[i] = 1]_vars

\* C22 witness: the PRIMARY issued two warnings, ids 1 and 2, and the
\* standalone bot has just cleared its memory
C22_Witness ==
    /\ Len(warnings["A"]) = 2
    /\ warnings["A"][1].id = 1 /\ warnings["A"][2].id = 2
    /\ next_warning_id["A"] = 3
    /\ last.op = "clear_memory" /\ last.status = "Memory Cleared"
    /\ warnings[Standalone] = <<>> /\ next_warning_id[Standalone] = 1

C24_EnforcementLogsOneAction ==
    [][\A i \in Nodes :
          LET old == moderation_actions[i]
              new == moderation_actions'[i]
          IN  /\ Len(new) >= Len(old) /\ SubSeq(new, 1, Len(old)) = old
              /\ (/\ last'.node = i
                  /\ last'.op \in {"ban", "warn", "deop"}
                  /\ last'.status \in {"User Banned", "User Warned",
                                        "User Deopped"})
                     => /\ Len(new) = Len(old) + 1
                        /\ new[Len(new)].action = last'.op]_vars

\* C25: the deopped map of main.py holds at most one record per user, the
\* one stored under the user's id.  After a permitted deop of m, m is
\* deopped and nobody else's record moved; after a permitted reop of m, m
\* is not deopped and the other records stay; a reop of a user who is not
\* deopped changes no store.  A user is restricted exactly when their id
\* is a key of the map: then is_authorized refuses them every action.
C25_DeoppedMap ==
    [][LET i == "A"
           d == deopped_users[i]
           e == deopped_users'[i]
       IN  /\ \A k \in DOMAIN d : d[k].user_id = k
           /\ \A u \in Members : is_deopped(i, u) <=> u \in DOMAIN d
           /\ \A u \in Users : \A a \in {"ban", "warn"} :
                  is_authorized(i, u, a) <=>
                      (u \notin DOMAIN d /\ is_active_instance[i]
                          /\ has_permission(u, a))
           /\ \A m \in Members :
                  (last'.node = i /\ last'.arg = ToString(m)) =>
                      /\ (last'.op = "deop" /\ last'.status = "User Deopped")
                             => /\ DOMAIN e = DOMAIN d \cup {m}
                                /\ e[m].user_id = m
                                /\ \A k \in DOMAIN d \ {m} : e[k] = d[k]
                      /\ (last'.op = "reop" /\ last'.status = "User Reopped")
                             => /\ m \in DOMAIN d
                                /\ DOMAIN e = DOMAIN d \ {m}
                                /\ \A k \in DOMAIN e : e[k] = d[k]
                      /\ (last'.op = "reop" /\ m \notin DOMAIN d)
                             => /\ last'.status \in {"User not deopped",
                                                      "Admin Only"}
                                /\ UNCHANGED stores]_vars

\* C25 witness: members 2 and 3 were deopped, then 3 was reopped: 2 is
\* still restricted, 3 no longer
C25_Witness ==
    /\ last.op = "reop" /\ last.status = "User Reopped" /\ last.arg = "3"
    /\ DOMAIN deopped_users["A"] = {2}
    /\ deopped_users["A"][2].deopped_by = 1
    /\ ~is_authorized("A", 2, "ban")
    /\ stats["A"].deops.v = 2

\* C26: in every registry the names of the custom commands are pairwise
\* distinct and none is the name of a built-in command; an addcmd that is
\* rejected because the name exists leaves the registry as it was.
C26_CustomNamesUniqueNotBuiltin ==
    [][\A i \in Nodes :
          LET cc == custom_commands'[i]
          IN  /\ \A k \in DOMAIN cc : cc[k].name \notin BuiltinCommands
              /\ \A j, k \in DOMAIN cc : cc[j].name = cc[k].name => j = k
              /\ (last'.node = i /\ last'.status = "exists")
                     => custom_commands'[i] = custom_commands[i]]_vars

\* C27: an invocation of a custom command on an ACTIVE instance adds
\* exactly 1 to the usage counter of that command and 1 to the
\* custom_commands_used counter, and touches no other command; on a
\* STANDBY instance it changes nothing.  No operation changes another
\* field of a stored custom command, and nothing but an invocation changes
\* its usage counter.
C27_UsageCountedOncePerInvocation ==
    [][\A i \in Nodes :
          LET cc == custom_commands[i]
              dd == custom_commands'[i]
              invoked == last'.op = "custom" /\ last'.node = i
          IN  /\ \A k \in DOMAIN cc \cap DOMAIN dd :
                     /\ [dd[k] EXCEPT !.usage_count = 0]
                            = [cc[k] EXCEPT !.usage_count = 0]
                     /\ ~invoked => dd[k] = cc[k]
              /\ invoked =>
                     LET key == commands[i][last'.arg]
                     IN  IF is_active_instance[i]
                         THEN /\ last'.status = "custom"
                              /\ DOMAIN dd = DOMAIN cc /\ key \in DOMAIN cc
                              /\ dd[key].usage_count = cc[key].usage_count + 1
                              /\ \A k \in DOMAIN cc \ {key} : dd[k] = cc[k]
                              /\ stats'[i].custom_commands_used.v
                                     = stats[i].custom_commands_used.v + 1
                         ELSE /\ last'.status = "dropped"
                              /\ UNCHANGED stores]_vars

\* C27 witness: the custom command "rules" of the ACTIVE instance has been
\* invoked twice; the STANDBY instance holds its own copy, never used
C27_Witness ==
    /\ last.op = "custom" /\ last.node = "A" /\ last.arg = "rules"
    /\ is_active_instance["A"]
    /\ custom_commands["A"]["rules"].usage_count = 2
    /\ stats["A"].custom_commands_used.v = 2
    /\ "rules" \in DOMAIN custom_commands["B"]
    /\ custom_commands["B"]["rules"].usage_count = 0

\* the calls named c among the calls of a cycle
CallsOf(cycle, c) == Cardinality({k \in DOMAIN cycle : cycle[k] = c})

\* C28: a health cycle calls sync_data at most once and check_peer_health
\* at most once, and each call issues at most one HTTP request (one POST
\* /sync, one GET /health), whatever the request's fate: a failed request
\* is not repeated within the cycle.
C28_OneRequestPerCallPerCycle ==
    [][\A i \in Nodes :
          /\ CallsOf(steps'[i], "sync_data") <= 1
          /\ CallsOf(steps'[i], "check_peer_health") <= 1
          /\ (last'.node = i /\ last'.op \in {"sync_data", "check_peer_health"})
                 => /\ last'.arg \in {"0", "1"}
                    /\ CallsOf(steps'[i], last'.op) = 1
                    /\ CallsOf(steps[i], last'.op) = 0]_vars

\* C28 witness: a cycle of the SECONDARY whose POST /sync got no answer and
\* whose GET /health timed out: one request each, the cycle is over
C28_Witness ==
    /\ steps["B"] = <<"takeover", "sync_data", "check_peer_health">>
    /\ json_serializable(snapshot("B"))
    /\ last.op = "check_peer_health" /\ last.node = "B"
    /\ last.status = "timeout" /\ last.arg = "1"
    /\ pc["B"] = "idle"

\* C29: an outbound push that fails (the body cannot be built, the peer
\* does not answer, or the peer answers "active_skip" or "error") raises
\* nothing to the health loop and leaves the sender's activity flag, its
\* peer heartbeat and its stores as they were; the cycle goes on.
C29_FailedPushChangesNothing ==
    [][\A i \in Nodes :
          (/\ last'.op = "sync_data" /\ last'.node = i
           /\ last'.status \in {"raised", "lost", "active_skip", "error"})
          => /\ ~last'.raised
             /\ is_active_instance'[i] = is_active_instance[i]
             /\ last_peer_heartbeat'[i] = last_peer_heartbeat[i]
             /\ custom_commands'[i] = custom_commands[i]
             /\ commands'[i] = commands[i]
             /\ stats'[i] = stats[i]
             /\ moderation_actions'[i] = moderation_actions[i]
             /\ warnings'[i] = warnings[i]
             /\ deopped_users'[i] = deopped_users[i]
             /\ next_warning_id'[i] = next_warning_id[i]
             /\ loop_running'[i]
             /\ pc'[i] = "check_peer_health"]_vars

\* C29 witness: the SECONDARY, holding a custom command, posted its
\* snapshot and the PRIMARY refused it
C29_Witness ==
    /\ last.op = "sync_data" /\ last.node = "B"
    /\ last.status = "active_skip" /\ last.arg = "1"
    /\ "rules" \in DOMAIN custom_commands["B"]
    /\ pc["B"] = "check_peer_health"

\* C30: check_peer_health returns true exactly when the peer answered the
\* request successfully with a well-formed response, whatever activity
\* flag the peer reported, and false on every failure.
C30_HealthyIffAnswered ==
    [][last'.op = "check_peer_health"
          => (last'.flag <=> last'.status = "ok")]_vars

\* C31: with the health loop and the POST /sync handler of an instance
\* interleaved at their awaits, the handler never writes custom_commands,
\* the command table or stats of an instance that is ACTIVE at the moment
\* of the write.
C31_NoIngestWriteWhileActive ==
    [][\A i \in Nodes :
          (/\ last'.op = "POST /sync" /\ last'.node = i
           /\ \/ custom_commands'[i] # custom_commands[i]
              \/ commands'[i] # commands[i]
              \/ stats'[i] # stats[i])
          => ~is_active_instance[i]]_vars

\* C32: the activity flag only ever goes from STANDBY to ACTIVE: an
\* instance that is ACTIVE is ACTIVE in the next state, whatever happens
\* (nothing calls become_standby).  A SECONDARY that took over therefore
\* stays ACTIVE once the PRIMARY answers again.
C32_ActiveStaysActive ==
    [][\A i \in Nodes : is_active_instance[i] => is_active_instance'[i]]_vars

\* C32 witness: the SECONDARY took over, and its health check has just
\* been answered by the PRIMARY again: both instances are ACTIVE
C32_Witness ==
    /\ is_active_instance["A"] /\ is_active_instance["B"]
    /\ peer_up /\ ~normal
    /\ presence["B"] >= 2
    /\ last.op = "check_peer_health" /\ last.node = "B" /\ last.status = "ok"
    /\ last_peer_heartbeat["B"] = now

\* C33: the PRIMARY is ACTIVE in every state and answers every POST /sync
\* with "active_skip"; having no peer URL, its health cycle sends neither
\* a health check nor a sync push.  So in the deployed pair no sync, sent
\* or received, changes the custom commands, the command table or the
\* counters of either instance.
C33_PrimaryNeverIngestsNorPushes ==
    [][/\ \A i \in Nodes : role[i] = PRIMARY =>
              /\ is_active_instance[i] /\ is_active_instance'[i]
              /\ peer_url[i] = None
              /\ (last'.node = i /\ last'.op = "POST /sync")
                     => last'.status = "active_skip"
              /\ (last'.node = i /\ last'.op \in {"sync_data", "check_peer_health"})
                     => last'.arg = "0"
       /\ last'.op \in {"POST /sync", "sync_data"}
              => UNCHANGED <<custom_commands, commands, stats>>]_vars

\* C33 witness: the PRIMARY, which holds a custom command, has just
\* refused a POST /sync, after the SECONDARY took over
C33_Witness ==
    /\ last.op = "POST /sync" /\ last.node = "A" /\ last.status = "active_skip"
    /\ "rules" \in DOMAIN custom_commands["A"]
    /\ custom_commands["B"] = <<>>
    /\ is_active_instance["B"]
    /\ steps["A"] = <<"takeover", "sync_data", "check_peer_health">>

\* C34: a POST /sync accepted by a STANDBY instance leaves its moderation
\* log, its warnings, its next warning id, its deopped users and its
\* activity flag as they were, whatever actions, warnings and deopped
\* users the body carries.
C34_SyncLeavesModerationState ==
    [][\A i \in Nodes :
          (last'.op = "POST /sync" /\ last'.node = i /\ last'.status = "success")
          => /\ moderation_actions'[i] = moderation_actions[i]
             /\ warnings'[i] = warnings[i]
             /\ next_warning_id'[i] = next_warning_id[i]
             /\ deopped_users'[i] = deopped_users[i]
             /\ is_active_instance'[i] = is_active_instance[i]]_vars

\* C34 witness: user 2 was deopped on the PRIMARY, the SECONDARY took the
\* PRIMARY's snapshot, was promoted, and user 2 has just banned a member
\* there
C34_Witness ==
    /\ 2 \in DOMAIN deopped_users["A"]
    /\ Len(snapshot("A").deopped) = 1
    /\ "rules" \in DOMAIN custom_commands["B"]
    /\ is_active_instance["B"]
    /\ deopped_users["B"] = <<>>
    /\ last.op = "ban" /\ last.node = "B" /\ last.status = "User Banned"
    /\ moderation_actions["B"][1].moderator_id = 2

\* C35: the custom-command registry and the command table agree in every
\* state: the keys of custom_commands are exactly the names of the
\* registered dynamic commands, and the entry under key k is named k.
C35_RegistryMatchesCommandTable ==
    \A i \in Nodes :
        /\ DOMAIN custom_commands[i] = DOMAIN commands[i]
        /\ \A k \in DOMAIN custom_commands[i] : custom_commands[i][k].name = k

\* C36: last_peer_heartbeat never decreases: whatever a health check does
\* to it, the new value is at least the previous one, the construction
\* time included.
C36_HeartbeatNeverDecreases ==
    [][\A i \in Nodes :
          last_peer_heartbeat'[i] >= last_peer_heartbeat[i]]_vars

\* the smaller of two numbers
Min(a, b) == IF a < b THEN a ELSE b

\* C37: the snapshot sync_data builds holds exactly the last min(100, n)
\* entries of the action log and the last min(50, m) warnings, in their
\* original order, and every entry of the deopped-user map and of the
\* custom-command registry; the call that builds it changes no store of
\* the instance.
C37_SnapshotIsBoundedSuffix ==
    [][\A i \in Nodes :
          LET s == snapshot(i)
              n == Len(moderation_actions[i])
              m == Len(warnings[i])
              a == Min(SnapshotActions, n)
              w == Min(SnapshotWarnings, m)
          IN  /\ Len(s.actions) = a
              /\ \A k \in 1..a :
                     s.actions[k] = stamped_to_dict(moderation_actions[i][n - a + k])
              /\ Len(s.warnings) = w
              /\ \A k \in 1..w :
                     s.warnings[k] = stamped_to_dict(warnings[i][m - w + k])
              /\ Len(s.deopped) = Cardinality(DOMAIN deopped_users[i])
              /\ Range(s.deopped) =
                     { <<ToString(u), stamped_to_dict(deopped_users[i][u])>> :
                          u \in DOMAIN deopped_users[i] }
              /\ Len(s.custom_commands) = Cardinality(DOMAIN custom_commands[i])
              /\ Range(s.custom_commands) =
                     { <<k, to_dict(custom_commands[i][k])>> :
                          k \in DOMAIN custom_commands[i] }
              /\ (last'.op = "sync_data" /\ last'.node = i)
                     => /\ custom_commands'[i] = custom_commands[i]
                        /\ commands'[i] = commands[i]
                        /\ stats'[i] = stats[i]
                        /\ moderation_actions'[i] = moderation_actions[i]
                        /\ warnings'[i] = warnings[i]
                        /\ deopped_users'[i] = deopped_users[i]
                        /\ next_warning_id'[i] = next_warning_id[i]]_vars

\* C37 witness: the promoted SECONDARY holds more than 100 actions and
\* more than 50 warnings, a deopped user and a custom command, and its
\* sync_data has just run: the snapshot starts at the 100th action and at
\* the 50th warning from the end
C37_Witness ==
    /\ last.op = "sync_data" /\ last.node = "B"
    /\ Len(moderation_actions["B"]) = SnapshotActions + 2
    /\ Len(warnings["B"]) = SnapshotActions + 2
    /\ Len(snapshot("B").actions) = SnapshotActions
    /\ snapshot("B").actions[1].timestamp = isoformat(3)
    /\ Len(snapshot("B").warnings) = SnapshotWarnings
    /\ snapshot("B").warnings[1].id = SnapshotActions + 2 - SnapshotWarnings + 1
    /\ Len(snapshot("B").deopped) = 1
    /\ Len(snapshot("B").custom_commands) = 1

\* C38: ban, kick and timeout append their ModerationAction to the log and
\* increment their counter before the platform call: when the call raises
\* Forbidden and the command answers "No Permission", the log holds one
\* new entry of that kind, stamped now, behind the entries it held, and
\* the counter of that kind is one higher.
C38_ForbiddenKeepsLogEntry ==
    [][\A i \in Nodes :
          (/\ last'.node = i
           /\ last'.op \in {"ban", "kick", "timeout"}
           /\ last'.status = "No Permission")
          => LET n == Len(moderation_actions[i])
                 key == CounterOf(last'.op)
             IN  /\ Len(moderation_actions'[i]) = n + 1
                 /\ SubSeq(moderation_actions'[i], 1, n) = moderation_actions[i]
                 /\ moderation_actions'[i][n + 1].action = last'.op
                 /\ moderation_actions'[i][n + 1].timestamp = now
                 /\ stats'[i][key].v = stats[i][key].v + 1]_vars

\* C38 witness: a kick and then a timeout on the ACTIVE instance were
\* both refused by the platform; the log holds both entries and both
\* counters stand at 1
C38_Witness ==
    /\ last.op = "timeout" /\ last.node = "A"
    /\ last.status = "No Permission"
    /\ Len(moderation_actions["A"]) = 2
    /\ moderation_actions["A"][1].action = "kick"
    /\ moderation_actions["A"][2].action = "timeout"
    /\ stats["A"].kicks = IntVal(1)
    /\ stats["A"].timeouts = IntVal(1)
    /\ stats["A"].bans = IntVal(0)

\* the arguments the authors of SpecAuth give to their commands
AuthArgs == {ToString(m) : m \in Authors} \cup {ToString(a) : a \in Amounts}
                \cup {"rules"}

=========================================================================
